---- MODULE Spec2Model ----
(***************************************************************************)
(* A model of holoviews' deferred dim expressions                          *)
(* (holoviews/util/transform.py).  A dim object holds a dimension and a   *)
(* list of operations; every operator or method builds a new dim through  *)
(* dim.__init__, and apply() folds the operations over the values of a     *)
(* dataset.                                                                *)
(*                                                                         *)
(* Python values are tagged records [k, v].  The expressions a client      *)
(* holds are the objects of `exprs`; each points into `lists`, the store   *)
(* of Python list objects, so that two dims sharing one list are visible   *)
(* as such.  A dim passed as an argument of an operation is kept by value  *)
(* (its dimension and the content of its list when it was passed).        *)
(***************************************************************************)
EXTENDS Integers, Sequences, FiniteSets, TLC

\* Bounds of the model.
MaxExprs == 3

\* The number of dims in the session of the operator entry points.
MaxOperatorExprs == 2

\* The number of dims in the session of the normalizations.
MaxNormExprs == 3

\* The longest array of values given to bin and to categorize, the most
\* bin boundaries and the longest list of categories.
MaxValues == 2

MaxBins == 3

MaxCategories == 2

\* The number of dims in the session of the registrations.
MaxRegisterExprs == 3

\* The number of dims in the session of the methods.
MaxMethodExprs == 3

\* The number of dims in the session of the renderings.
MaxReprExprs == 3

\* The number of dims in the session of the expanded flag.
MaxExpandedExprs == 3

\* The number of dims in the session of the graph.
MaxGraphExprs == 3

\* The length of a partition and the number of partitions of a container.
MaxChunk == 2

MaxPartitions == 2

\* The number of records given to to_spatialpandas.
MaxRecords == 2

VARIABLES exprs, lists, custom_funcs, last

vars == <<exprs, lists, custom_funcs, last>>

---------------------------------------------------------------------------
\* Python values.
None == [k |-> "none", v |-> 0]

PInt(i) == [k |-> "int", v |-> i]

PStr(s) == [k |-> "str", v |-> s]

PBool(b) == [k |-> "bool", v |-> b]

PList(s) == [k |-> "list", v |-> s]

PTuple(s) == [k |-> "tuple", v |-> s]

\* A function object, identified by its name.
Fn(n) == [k |-> "fn", v |-> n]

\* An object that can be called but is none of function_types.
Callable(n) == [k |-> "callable", v |-> n]

\* A dim held by the client (an index of exprs) and a dim by value.
Ref(i) == [k |-> "ref", v |-> i]

DimV(e) == [k |-> "dim", v |-> e]

EmptyDict == [n \in {} |-> None]

Pop(d, key) == [n \in DOMAIN d \ {key} |-> d[n]]

NoExpr == [dimension |-> "", ops |-> 0]

\* The dim by value of the held expression i.
Deref(i) == [dimension |-> exprs[i].dimension, ops |-> lists[exprs[i].ops]]

---------------------------------------------------------------------------
\* The function registries of class dim.
Registry(names) == [f \in {Fn(n) : n \in DOMAIN names} |-> PStr(names[f.v])]

_binary_funcs ==
    Registry([add |-> "+", and_ |-> "&", eq |-> "=", floordiv |-> "//",
              ge |-> ">=", gt |-> ">", le |-> "<=", lshift |-> "<<",
              lt |-> "<", mod |-> "%", mul |-> "*", ne |-> "!=",
              or_ |-> "|", pow |-> "**", rshift |-> ">>", sub |-> "-",
              truediv |-> "/"])

_builtin_funcs == Registry([abs |-> "abs", round_ |-> "round"])

_custom_funcs_initial ==
    Registry([norm |-> "norm", lognorm |-> "lognorm", bin |-> "bin",
              categorize |-> "categorize", digitize |-> "digitize",
              isin |-> "isin", astype |-> "astype", round_ |-> "round"])

_numpy_funcs ==
    Registry([any |-> "any", all |-> "all", cumprod |-> "cumprod",
              cumsum |-> "cumsum", max |-> "max", mean |-> "mean",
              min |-> "min", sum |-> "sum", std |-> "std", var |-> "var",
              log |-> "log", log10 |-> "log10"])

_unary_funcs == Registry([pos |-> "+", neg |-> "-", not_ |-> "~"])

_all_funcs ==
    <<_binary_funcs, _builtin_funcs, custom_funcs, _numpy_funcs, _unary_funcs>>

\* isinstance(fn, function_types): builtins, functions, methods and ufuncs.
function_types(fn) == fn.k = "fn"

\* Python hashes a key before it looks it up in a dict; a list has no hash.
Hashable(x) == x.k \notin {"list", "dict"}

\* The names the operator module defines (Python 3).
operator_attrs ==
    {"add", "and_", "eq", "floordiv", "ge", "gt", "le", "lshift", "lt",
     "mod", "mul", "ne", "or_", "pow", "rshift", "sub", "truediv",
     "pos", "neg", "not_"}

---------------------------------------------------------------------------
\* dim.__init__ as it would be with `ops.append(...)` in place of
\* `ops = ops + [...]`: the operation lands in the receiver's own list.
dim_init_append(obj, args, kwargs) ==
    IF obj.k = "ref" /\ Len(args) > 0 /\ function_types(args[1])
    THEN [exc |-> "",
          self |-> [dimension |-> exprs[obj.v].dimension, ops |-> exprs[obj.v].ops],
          lists |-> [lists EXCEPT ![exprs[obj.v].ops] =
                        Append(@, [args |-> Tail(args), fn |-> args[1],
                                   kwargs |-> Pop(kwargs, "reverse"),
                                   reverse |-> "reverse" \in DOMAIN kwargs])]]
    ELSE [exc |-> "",
          self |-> [dimension |-> IF obj.k = "str" THEN obj.v
                                  ELSE IF obj.k = "ref" THEN exprs[obj.v].dimension
                                  ELSE obj.v.dimension,
                    ops |-> Len(lists) + 1],
          lists |-> Append(lists, <<>>)]

\* dim.__init__ as it would be if it looked the name up in a source when
\* the dim is built.
dim_init_eager(obj, args, kwargs) ==
    IF obj.k = "str" /\ obj.v \notin {"x", "x2", "y", "w", "nx", "ny", "label"}
    THEN [exc |-> "DataError", self |-> NoExpr, lists |-> lists]
    ELSE [exc |-> "",
          self |-> [dimension |-> IF obj.k = "str" THEN obj.v
                                  ELSE IF obj.k = "ref" THEN exprs[obj.v].dimension
                                  ELSE obj.v.dimension,
                    ops |-> Len(lists) + 1],
          lists |-> Append(lists,
                           (IF obj.k = "str" THEN <<>>
                            ELSE IF obj.k = "ref" THEN lists[exprs[obj.v].ops]
                            ELSE obj.v.ops)
                           \o (IF args = <<>> THEN <<>>
                               ELSE <<[args |-> Tail(args), fn |-> args[1],
                                       kwargs |-> Pop(kwargs, "reverse"),
                                       reverse |-> "reverse" \in DOMAIN kwargs]>>))]

\* dim.__init__(self, obj, *args, **kwargs).  obj is a name, a held dim or
\* a dim by value.  The result is the exception raised ("" for none), the
\* new object and the list store after the call.
dim_init(obj, args, kwargs) ==
    LET dimension == IF obj.k = "str" THEN obj.v
                     ELSE IF obj.k = "ref" THEN exprs[obj.v].dimension
                     ELSE obj.v.dimension
        ops == IF obj.k = "str" THEN <<>>
               ELSE IF obj.k = "ref" THEN lists[exprs[obj.v].ops]
               ELSE obj.v.ops
        fn == IF Len(args) > 0 THEN args[1] ELSE None
        fresh == Len(lists) + 1
        op == [args |-> Tail(args), fn |-> fn,
               kwargs |-> Pop(kwargs, "reverse"),
               reverse |-> IF "reverse" \in DOMAIN kwargs
                           THEN kwargs["reverse"].v ELSE FALSE]
    IN  IF fn = None
        THEN IF obj.k = "ref"
             THEN [exc |-> "",
                   self |-> [dimension |-> dimension, ops |-> exprs[obj.v].ops],
                   lists |-> lists]
             ELSE [exc |-> "",
                   self |-> [dimension |-> dimension, ops |-> fresh],
                   lists |-> Append(lists, ops)]
        ELSE IF ~function_types(fn) /\ ~Hashable(fn)
        THEN [exc |-> "TypeError", self |-> NoExpr, lists |-> lists]
        ELSE IF ~(function_types(fn) \/
                  \E i \in DOMAIN _all_funcs : fn \in DOMAIN _all_funcs[i])
        THEN [exc |-> "ValueError", self |-> NoExpr, lists |-> lists]
        ELSE [exc |-> "",
              self |-> [dimension |-> dimension, ops |-> fresh],
              lists |-> Append(lists, Append(ops, op))]

\* The effect of a call that ends in dim(obj, *args, **kwargs); `exc` is an
\* exception raised before that call is reached.
Construct(call, obj, args, kwargs, exc) ==
    LET r == IF exc # "" THEN [exc |-> exc, self |-> NoExpr, lists |-> lists]
             ELSE dim_init(obj, args, kwargs)
    IN  /\ exprs' = IF r.exc = "" THEN Append(exprs, r.self) ELSE exprs
        /\ lists' = r.lists
        /\ last' = [call |-> call, obj |-> obj, args |-> args,
                    kwargs |-> kwargs, exc |-> r.exc,
                    ret |-> IF r.exc = "" THEN Ref(Len(exprs) + 1) ELSE None]
        /\ UNCHANGED custom_funcs

---------------------------------------------------------------------------
\* The composition methods of class dim.  Each is the call it makes:
\* [obj, args, kwargs] for dim(obj, *args, **kwargs), and exc for an
\* exception raised while the arguments of that call are evaluated.
DimCall(obj, args, kwargs) ==
    [obj |-> obj, args |-> args, kwargs |-> kwargs, exc |-> ""]

\* operator.<name>: an AttributeError when the module has no such name.
OperatorCall(obj, name, rest, kwargs) ==
    [obj |-> obj, args |-> <<Fn(name)>> \o rest, kwargs |-> kwargs,
     exc |-> IF name \in operator_attrs THEN "" ELSE "AttributeError"]

Reversed == [reverse |-> PBool(TRUE)]

\* __add__ .. __truediv__ (the Python 2 hook __div__ is never dispatched
\* under Python 3 and is left out).
forward_methods ==
    [add |-> "add", and |-> "and_", eq |-> "eq", floordiv |-> "floordiv",
     ge |-> "ge", gt |-> "gt", le |-> "le", lt |-> "lt",
     lshift |-> "lshift", mod |-> "mod", mul |-> "mul", ne |-> "ne",
     or |-> "or_", rshift |-> "rshift", pow |-> "pow", sub |-> "sub",
     truediv |-> "truediv"]

forward(m, self, other) ==
    OperatorCall(self, forward_methods[m], <<other>>, EmptyDict)

\* __radd__ .. __rtruediv__ (without __rdiv__), each as the source has it.
reflected(m, self, other) ==
    CASE m = "radd"      -> OperatorCall(self, "add", <<other>>, Reversed)
      [] m = "rand"      -> OperatorCall(self, "and_", <<other>>, EmptyDict)
      [] m = "rfloordiv" -> OperatorCall(self, "floordiv", <<other>>, Reversed)
      [] m = "rlshift"   -> OperatorCall(self, "rlshift", <<other>>, EmptyDict)
      [] m = "rmod"      -> OperatorCall(self, "mod", <<other>>, Reversed)
      [] m = "rmul"      -> OperatorCall(self, "mul", <<other>>, Reversed)
      [] m = "ror"       -> OperatorCall(self, "or_", <<other>>, Reversed)
      [] m = "rpow"      -> OperatorCall(self, "pow", <<other>>, Reversed)
      [] m = "rrshift"   -> OperatorCall(self, "rrshift", <<other>>, EmptyDict)
      [] m = "rsub"      -> OperatorCall(self, "sub", <<other>>, Reversed)
      [] m = "rtruediv"  -> OperatorCall(self, "truediv", <<other>>, Reversed)

reflected_methods ==
    {"radd", "rand", "rfloordiv", "rlshift", "rmod", "rmul", "ror", "rpow",
     "rrshift", "rsub", "rtruediv"}

\* The forward method each reflected method mirrors.
mirror ==
    [radd |-> "add", rand |-> "and", rfloordiv |-> "floordiv",
     rlshift |-> "lshift", rmod |-> "mod", rmul |-> "mul", ror |-> "or",
     rpow |-> "pow", rrshift |-> "rshift", rsub |-> "sub",
     rtruediv |-> "truediv"]

\* __neg__, __not__, __pos__
unary(m, self) == OperatorCall(self, m, <<>>, EmptyDict)

\* __abs__ and __round__(ndigits=None)
abs_(self) == DimCall(self, <<Fn("abs")>>, EmptyDict)

round__(self, ndigits) ==
    DimCall(self, <<Fn("round_")>> \o (IF ndigits = None THEN <<>> ELSE <<ndigits>>),
            EmptyDict)

\* any, all, cumprod, cumsum, max, mean, min, sum, std, var, log, log10
numpy_method(m, self, args, kwargs) == DimCall(self, <<Fn(m)>> \o args, kwargs)

\* clip as it would be with `or` for `and` in its test.
clip_either(self, min, max) ==
    IF min = None \/ max = None
    THEN [obj |-> self, args |-> <<>>, kwargs |-> EmptyDict, exc |-> "ValueError"]
    ELSE DimCall(self, <<Fn("clip")>>, [a_min |-> min, a_max |-> max])

\* clip(min=None, max=None)
clip(self, min, max) ==
    IF min = None /\ max = None
    THEN [obj |-> self, args |-> <<>>, kwargs |-> EmptyDict, exc |-> "ValueError"]
    ELSE DimCall(self, <<Fn("clip")>>, [a_min |-> min, a_max |-> max])

\* norm(limits=None) and lognorm(limits=None)
norm_method(m, self, limits) ==
    DimCall(self, <<Fn(m)>>,
            IF limits = None THEN EmptyDict
            ELSE [min |-> limits.v[1], max |-> limits.v[2]])

\* astype, round, digitize, isin, bin, categorize, str
astype_method(self, dtype) == DimCall(self, <<Fn("astype")>>, [dtype |-> dtype])

round_method(self, decimals) ==
    DimCall(self, <<Fn("round_")>>, [decimals |-> decimals])

digitize_method(self, args, kwargs) ==
    DimCall(self, <<Fn("digitize")>> \o args, kwargs)

isin_method(self, args, kwargs) == DimCall(self, <<Fn("isin")>> \o args, kwargs)

bin_method(self, bins, labels) ==
    DimCall(self, <<Fn("bin"), bins>>, [labels |-> labels])

categorize_method(self, categories, default) ==
    DimCall(self, <<Fn("categorize")>>,
            [categories |-> categories, default |-> default])

str_method(self) == astype_method(self, Fn("str"))

---------------------------------------------------------------------------
\* The data sources apply() and applies() are given: a table, a graph (its
\* edge table) with its node table, and a grid.  Their interface is the
\* one transform.py calls.
Sources == {"table", "graph", "nodes", "grid", "paths"}

kdims(ds) ==
    CASE ds = "table" -> <<"x">>
      [] ds = "graph" -> <<"x", "x2">>
      [] ds = "nodes" -> <<"nx", "ny", "y">>
      [] ds = "grid"  -> <<"x">>
      [] ds = "paths" -> <<"x", "y">>

vdims(ds) ==
    CASE ds = "table" -> <<"y">>
      [] ds = "graph" -> <<"w">>
      [] ds = "nodes" -> <<"label">>
      [] ds = "grid"  -> <<"y">>
      [] ds = "paths" -> <<"w">>

Range(s) == {s[i] : i \in DOMAIN s}

\* `dimension in dataset`
Contains(ds, d) == d \in Range(kdims(ds)) \cup Range(vdims(ds))

\* dataset.get_dimension(dimension): the Dimension, or None.
get_dimension(ds, d) == IF Contains(ds, d) THEN PStr(d) ELSE None

\* isinstance(dataset, Graph) and dataset.nodes
IsGraph(ds) == ds = "graph"

nodes(ds) == "nodes"

\* dataset.interface.gridded, .multi and .isunique(dataset, dimension, True)
gridded(ds) == ds = "grid"

multi(ds) == ds = "paths"

\* The value of a sub-geometry is one per geometry, its coordinates are not.
isunique(ds, d) == ds = "paths" /\ d = "w"

Raise(exc) == [k |-> "raise", v |-> exc]

\* dataset.interface.values(dataset, dimension, expanded=, flat=, compute=,
\* keep_index=): the column, as the request that produced it.
values(ds, d, expanded, flat, compute, keep_index) ==
    IF Contains(ds, d)
    THEN [k |-> "values",
          v |-> [dataset |-> ds, dimension |-> d, expanded |-> expanded,
                 flat |-> flat, compute |-> compute, keep_index |-> keep_index]]
    ELSE Raise("DataError")

\* The result of fn(*args, **kwargs), as the call that was made.
Call(fn, args, kwargs) ==
    IF fn.k \notin {"fn", "callable"} THEN Raise("TypeError")
    ELSE [k |-> "call", v |-> [fn |-> fn.v, args |-> args, kwargs |-> kwargs]]

Reverse(s) == [i \in 1..Len(s) |-> s[Len(s) + 1 - i]]

\* The keys of a dict, in the order of the model's key names.
RECURSIVE Keys(_)
Keys(S) ==
    IF S = {} THEN <<>>
    ELSE LET n == CHOOSE n \in S : TRUE IN <<PStr(n)>> \o Keys(S \ {n})

---------------------------------------------------------------------------
\* dim.apply(self, dataset, flat, expanded, ranges, all_values, keep_index,
\* compute); self is a dim by value and kw holds the six keyword parameters.
\* expanded as it would be if every dimension of a grid stayed unexpanded.
auto_expanded_gridded(dataset, dimension) ==
    ~(gridded(dataset) \/ (multi(dataset) /\ isunique(dataset, dimension)))

\* The value of expanded that apply derives when the caller leaves it unset.
auto_expanded(dataset, dimension) ==
    ~((gridded(dataset) /\ dimension \in Range(kdims(dataset)))
      \/ (multi(dataset) /\ isunique(dataset, dimension)))

\* A graph that never hands the extraction over to its nodes.
graph_source_edges(dataset, dimension) == dataset

\* The source the values are extracted from: the graph itself when it has
\* the dimension, its nodes otherwise.
graph_source(dataset, dimension) ==
    IF IsGraph(dataset)
    THEN IF Contains(dataset, dimension) THEN dataset ELSE nodes(dataset)
    ELSE dataset

\* The dimension the values are extracted for: the third key dimension of
\* the nodes for a key dimension of a graph under all_values.
graph_dimension(dataset, dimension, all_values) ==
    IF IsGraph(dataset) /\ dimension \in Range(kdims(dataset)) /\ all_values.v
    THEN kdims(nodes(dataset))[3]
    ELSE dimension

RECURSIVE apply(_, _, _)
RECURSIVE apply_ops(_, _, _, _, _, _)

\* The body of the loop as it would be without the branch for the ranges.
apply_op_generic(o, data, dataset, dimension, kw) ==
    LET resolved == [j \in 1..Len(o.args) |->
                        IF o.args[j].k = "dim"
                        THEN apply(o.args[j].v, dataset, kw)
                        ELSE o.args[j]]
        failed == {j \in 1..Len(o.args) : resolved[j].k = "raise"}
        fn_args == <<data>> \o resolved
    IN  IF failed # {}
        THEN resolved[CHOOSE j \in failed : \A i \in failed : j <= i]
        ELSE IF get_dimension(dataset, dimension) = None THEN Raise("AttributeError")
        ELSE Call(o.fn, IF o.reverse THEN Reverse(fn_args) ELSE fn_args, o.kwargs)

apply_op(o, data, dataset, dimension, kw) ==
    LET resolved == [j \in 1..Len(o.args) |->
                        IF o.args[j].k = "dim"
                        THEN apply(o.args[j].v, dataset, kw)
                        ELSE o.args[j]]
        failed == {j \in 1..Len(o.args) : resolved[j].k = "raise"}
        fn_args == <<data>> \o resolved
        args == IF o.reverse THEN Reverse(fn_args) ELSE fn_args
        eldim == get_dimension(dataset, dimension)
        ranges == kw.ranges
        drange == IF eldim.v \in DOMAIN ranges THEN ranges[eldim.v] ELSE EmptyDict
        star == IF "combined" \in DOMAIN drange THEN drange["combined"].v
                ELSE Keys(DOMAIN drange)
        kwargs == o.kwargs
    IN  IF failed # {}
        THEN resolved[CHOOSE j \in failed : \A i \in failed : j <= i]
        ELSE IF eldim = None THEN Raise("AttributeError")
        ELSE IF o.fn \in {Fn("norm"), Fn("lognorm")} /\ drange # EmptyDict
                /\ ~("min" \in DOMAIN kwargs /\ "max" \in DOMAIN kwargs)
        THEN Call(o.fn, <<data>> \o star, EmptyDict)
        ELSE Call(o.fn, args, kwargs)

\* The loop of apply as it would be if the result of an operation were not
\* kept for the next one: every operation sees the extracted values.
apply_ops_unchained(ops, i, data, dataset, dimension, kw) ==
    IF ops = <<>> \/ data.k = "raise" THEN data
    ELSE apply_op(ops[Len(ops)], data, dataset, dimension, kw)

apply_ops(ops, i, data, dataset, dimension, kw) ==
    IF i > Len(ops) \/ data.k = "raise" THEN data
    ELSE apply_ops(ops, i + 1, apply_op(ops[i], data, dataset, dimension, kw),
                   dataset, dimension, kw)

apply(self, dataset, kw) ==
    LET expanded ==
            IF kw.expanded = None THEN PBool(auto_expanded(dataset, self.dimension))
            ELSE kw.expanded
        dimension == graph_dimension(dataset, self.dimension, kw.all_values)
        source == graph_source(dataset, dimension)
        data == values(source, dimension, expanded, kw.flat, kw.compute,
                       kw.keep_index)
    IN  apply_ops(self.ops, 1, data, source, dimension,
                  [kw EXCEPT !.expanded = expanded])

\* dim.applies(self, dataset)
RECURSIVE applies(_, _)
applies(self, dataset) ==
    LET anchor == get_dimension(dataset, self.dimension) # None
                  \/ (IsGraph(dataset)
                      /\ get_dimension(nodes(dataset), self.dimension) # None)
    IN  anchor /\ \A i \in DOMAIN self.ops :
                    \A j \in DOMAIN self.ops[i].args :
                        self.ops[i].args[j].k = "dim"
                            => applies(self.ops[i].args[j].v, dataset)

---------------------------------------------------------------------------
\* Numbers are exact fractions <<n, d>> in lowest terms with d > 0; <<s, 0>>
\* is what a division by zero leaves (an infinity of sign s, or nan for 0).
RECURSIVE GCD(_, _)
GCD(a, b) == IF b = 0 THEN a ELSE GCD(b, a % b)

Abs(a) == IF a < 0 THEN -a ELSE a

Sgn(a) == IF a < 0 THEN -1 ELSE IF a > 0 THEN 1 ELSE 0

Q(n, d) ==
    IF d = 0 THEN <<Sgn(n), 0>>
    ELSE LET g == GCD(Abs(n), Abs(d)) IN <<(Sgn(d) * n) \div g, Abs(d) \div g>>

QSub(a, b) == Q(a[1] * b[2] - b[1] * a[2], a[2] * b[2])

QAdd(a, b) == Q(a[1] * b[2] + b[1] * a[2], a[2] * b[2])

QMul(a, b) == Q(a[1] * b[1], a[2] * b[2])

QDiv(a, b) == Q(a[1] * b[2], a[2] * b[1])

QLe(a, b) == a[1] * b[2] <= b[1] * a[2]

\* np.min and np.max of a non-empty array.
QMin(a) == CHOOSE m \in Range(a) : \A x \in Range(a) : QLe(m, x)

QMax(a) == CHOOSE m \in Range(a) : \A x \in Range(a) : QLe(x, m)

\* The columns of the data sources.
Column(ds, d) ==
    CASE ds = "table" /\ d = "x" -> <<1, 2, 3>>
      [] ds = "table" /\ d = "y" -> <<0, 5, 10>>
      [] ds = "graph" /\ d = "x" -> <<1, 2>>
      [] ds = "graph" /\ d = "x2" -> <<2, 1>>
      [] ds = "graph" /\ d = "w" -> <<7, 9>>
      [] ds = "nodes" /\ d = "nx" -> <<0, 1>>
      [] ds = "nodes" /\ d = "ny" -> <<1, 0>>
      [] ds = "nodes" /\ d = "y" -> <<1, 2>>
      [] ds = "nodes" /\ d = "label" -> <<4, 8>>
      [] ds = "grid" /\ d = "x" -> <<1, 2, 3>>
      [] ds = "grid" /\ d = "y" -> <<2, 4, 8>>
      [] ds = "paths" /\ d = "x" -> <<1, 2, 3>>
      [] ds = "paths" /\ d = "y" -> <<0, 1, 0>>
      [] ds = "paths" /\ d = "w" -> <<5, 5, 5>>

Array(a) == [k |-> "array", v |-> a]

Num(q) == [k |-> "num", v |-> q]

Opaque == [k |-> "opaque", v |-> 0]

\* An operator of the operator module on arrays and numbers (numpy
\* broadcasts a number over an array).
Arith(f, a, b) ==
    CASE f = "add" -> QAdd(a, b)
      [] f = "sub" -> QSub(a, b)
      [] f = "mul" -> QMul(a, b)

Broadcast(f, a, b) ==
    IF a.k = "num" /\ b.k = "num" THEN Num(Arith(f, a.v, b.v))
    ELSE IF a.k = "array" /\ b.k = "num"
    THEN Array([i \in DOMAIN a.v |-> Arith(f, a.v[i], b.v)])
    ELSE IF a.k = "num" /\ b.k = "array"
    THEN Array([i \in DOMAIN b.v |-> Arith(f, a.v, b.v[i])])
    ELSE IF a.k = "array" /\ b.k = "array" /\ Len(a.v) = Len(b.v)
    THEN Array([i \in DOMAIN a.v |-> Arith(f, a.v[i], b.v[i])])
    ELSE Opaque

\* norm(values, min=None, max=None)
norm(vals, min, max) ==
    IF vals.k # "array" \/ min.k \notin {"none", "num"}
       \/ max.k \notin {"none", "num"} \/ vals.v = <<>>
    THEN Opaque
    ELSE LET lo == IF min = None THEN QMin(vals.v) ELSE min.v
             hi == IF max = None THEN QMax(vals.v) ELSE max.v
         IN  Array([i \in DOMAIN vals.v |->
                       QDiv(QSub(vals.v[i], lo), QSub(hi, lo))])

\* lognorm(values, min=None, max=None).  A logarithm is kept as the number
\* it is taken of: the element <<v, lo, hi>> of the result stands for
\* (log v - log lo) / (log hi - log lo).
lognorm(vals, min, max) ==
    IF vals.k # "array" \/ min.k \notin {"none", "num"}
       \/ max.k \notin {"none", "num"} \/ vals.v = <<>>
    THEN Opaque
    ELSE LET lo == IF min = None THEN QMin(vals.v) ELSE min.v
             hi == IF max = None THEN QMax(vals.v) ELSE max.v
         IN  [k |-> "logarray", v |-> [i \in DOMAIN vals.v |-> <<vals.v[i], lo, hi>>]]

\* The parameter of a Python call f(values, min=None, max=None) bound from
\* the positional and the keyword arguments.
Param(args, kwargs, pos, name) ==
    IF Len(args) >= pos THEN args[pos]
    ELSE IF name \in DOMAIN kwargs THEN kwargs[name] ELSE None

\* What a value returned by apply() is, where the functions called are
\* arithmetic or the normalizations of this module.
RECURSIVE Denote(_)
Denote(t) ==
    CASE t.k = "values" ->
            Array([i \in DOMAIN Column(t.v.dataset, t.v.dimension) |->
                      Q(Column(t.v.dataset, t.v.dimension)[i], 1)])
      [] t.k = "int" -> Num(Q(t.v, 1))
      [] t.k = "none" -> None
      [] t.k = "call" ->
            LET a == [i \in DOMAIN t.v.args |-> Denote(t.v.args[i])]
                kw == [n \in DOMAIN t.v.kwargs |-> Denote(t.v.kwargs[n])]
            IN  IF t.v.fn \in {"add", "sub", "mul"} /\ Len(a) = 2 /\ DOMAIN kw = {}
                THEN Broadcast(t.v.fn, a[1], a[2])
                ELSE IF t.v.fn = "norm" /\ Len(a) \in 1..3
                THEN norm(a[1], Param(a, kw, 2, "min"), Param(a, kw, 3, "max"))
                ELSE IF t.v.fn = "lognorm" /\ Len(a) \in 1..3
                THEN lognorm(a[1], Param(a, kw, 2, "min"), Param(a, kw, 3, "max"))
                ELSE Opaque
      [] OTHER -> Opaque

---------------------------------------------------------------------------
Names == {"x", "y"}

\* A dim made on the spot, as in dim('x') + dim('y').
Temp(n) == DimV([dimension |-> n, ops |-> <<>>])

Held == {DimV(Deref(j)) : j \in DOMAIN exprs}

\* The keyword parameters of apply as a caller leaves them.
Defaults ==
    [flat |-> PBool(FALSE), expanded |-> None, ranges |-> EmptyDict,
     all_values |-> PBool(FALSE), keep_index |-> PBool(FALSE),
     compute |-> PBool(TRUE)]

AllSet ==
    [flat |-> PBool(TRUE), expanded |-> None, ranges |-> EmptyDict,
     all_values |-> PBool(TRUE), keep_index |-> PBool(TRUE),
     compute |-> PBool(FALSE)]

Init ==
    /\ exprs = <<>>
    /\ lists = <<>>
    /\ custom_funcs = _custom_funcs_initial
    /\ last = [call |-> "", obj |-> None, args |-> <<>>, kwargs |-> EmptyDict,
               exc |-> "", ret |-> None]

Compose(call, c) == Construct(call, c.obj, c.args, c.kwargs, c.exc)

\* dim(name)
DimNew ==
    /\ Len(exprs) < MaxExprs
    /\ \E n \in Names : Construct("dim", PStr(n), <<>>, EmptyDict, "")

\* dim(e)
DimCopy ==
    /\ Len(exprs) < MaxExprs
    /\ \E i \in DOMAIN exprs : Construct("dim", Ref(i), <<>>, EmptyDict, "")

\* e * 2, e + 1, e + f
Forward ==
    /\ Len(exprs) < MaxExprs
    /\ \E i \in DOMAIN exprs :
           \/ \E other \in {PInt(2)} : Compose("mul", forward("mul", Ref(i), other))
           \/ \E other \in {PInt(1)} \cup Held :
                  Compose("add", forward("add", Ref(i), other))

\* 1 - e
Reflected ==
    /\ Len(exprs) < MaxExprs
    /\ \E i \in DOMAIN exprs : Compose("rsub", reflected("rsub", Ref(i), PInt(1)))

\* e.clip(min=dim('x'))
Clip ==
    /\ Len(exprs) < MaxExprs
    /\ \E i \in DOMAIN exprs : Compose("clip", clip(Ref(i), Temp("x"), None))

\* The call e.apply(dataset, ...) and what it returns or raises; the dim is
\* the one the client made last.
Evaluate(i, dataset, kw) ==
    LET r == apply(Deref(i), dataset, kw)
    IN  /\ last' = [call |-> "apply", obj |-> Ref(i), args |-> <<PStr(dataset)>>,
                    kwargs |-> kw,
                    exc |-> IF r.k = "raise" THEN r.v ELSE "",
                    ret |-> IF r.k = "raise" THEN None ELSE r]
        /\ UNCHANGED <<exprs, lists, custom_funcs>>

Apply ==
    /\ exprs # <<>>
    /\ \E dataset \in {"table", "graph", "grid"}, kw \in {Defaults, AllSet} :
           Evaluate(Len(exprs), dataset, kw)

Applies ==
    /\ exprs # <<>>
    /\ \E dataset \in {"table", "graph", "nodes"} :
           /\ last' = [call |-> "applies", obj |-> Ref(Len(exprs)),
                       args |-> <<PStr(dataset)>>, kwargs |-> EmptyDict,
                       exc |-> "",
                       ret |-> PBool(applies(Deref(Len(exprs)), dataset))]
           /\ UNCHANGED <<exprs, lists, custom_funcs>>

Next ==
    \/ DimNew
    \/ DimCopy
    \/ Forward
    \/ Reflected
    \/ Clip
    \/ Apply
    \/ Applies

Spec == Init /\ [][Next]_vars

---------------------------------------------------------------------------
\* A second session: every operator entry point of the class and the
\* constructor with every kind of second argument, on a dim of one name.
OperatorNew ==
    /\ Len(exprs) < MaxOperatorExprs
    /\ Construct("dim", PStr("x"), <<>>, EmptyDict, "")

\* e OP 5
OperatorForward ==
    /\ Len(exprs) < MaxOperatorExprs
    /\ \E i \in DOMAIN exprs, m \in DOMAIN forward_methods :
           Compose(m, forward(m, Ref(i), PInt(5)))

\* 5 OP e
OperatorReflected ==
    /\ Len(exprs) < MaxOperatorExprs
    /\ \E i \in DOMAIN exprs, m \in reflected_methods :
           Compose(m, reflected(m, Ref(i), PInt(5)))

\* -e, ~e, +e, abs(e), round(e), e.sum(), e.log()
OperatorUnary ==
    /\ Len(exprs) < MaxOperatorExprs
    /\ \E i \in DOMAIN exprs :
           \/ \E m \in {"neg", "not_", "pos"} : Compose(m, unary(m, Ref(i)))
           \/ Compose("abs", abs_(Ref(i)))
           \/ Compose("round", round__(Ref(i), None))
           \/ \E m \in {"sum", "log"} :
                  Compose(m, numpy_method(m, Ref(i), <<>>, EmptyDict))

\* Second arguments of dim(obj, fn): functions that are not registered, keys
\* of the registries, and values that are neither.
SecondArguments ==
    {Callable("partial"), Fn("isnan"), Fn("add"), Fn("norm"), Fn("clip"),
     PInt(5), PStr("sum"), PTuple(<<>>), PList(<<PInt(1)>>)}

\* dim(obj, fn)
OperatorConstruct ==
    /\ Len(exprs) < MaxOperatorExprs
    /\ \E obj \in {PStr("x")} \cup {Ref(i) : i \in DOMAIN exprs},
          fn \in SecondArguments :
           Construct("dim", obj, <<fn>>, EmptyDict, "")

OperatorApply ==
    /\ exprs # <<>>
    /\ Evaluate(Len(exprs), "table", Defaults)

NextOperators ==
    \/ OperatorNew
    \/ OperatorForward
    \/ OperatorReflected
    \/ OperatorUnary
    \/ OperatorConstruct
    \/ OperatorApply

SpecOperators == Init /\ [][NextOperators]_vars

---------------------------------------------------------------------------
\* A third session: the normalizations of a column and of twice a column,
\* applied with and without precomputed ranges.
NormNew ==
    /\ Len(exprs) < MaxNormExprs
    /\ Construct("dim", PStr("x"), <<>>, EmptyDict, "")

\* e * 2
NormScale ==
    /\ Len(exprs) < MaxNormExprs
    /\ \E i \in DOMAIN exprs : Compose("mul", forward("mul", Ref(i), PInt(2)))

Pair(a, b) == PTuple(<<PInt(a), PInt(b)>>)

\* e.norm(), e.norm(limits=(1, 5)), e.lognorm(), e.lognorm(limits=(1, 5))
Normalize ==
    /\ Len(exprs) < MaxNormExprs
    /\ \E i \in DOMAIN exprs, m \in {"norm", "lognorm"}, limits \in {None, Pair(1, 5)} :
           Compose(m, norm_method(m, Ref(i), limits))

\* The ranges a caller passes: none, the combined range of x, the range of
\* the data of x with the combined one, and the combined range of y only.
RangesGiven ==
    {EmptyDict,
     [x |-> [combined |-> Pair(1, 9)]],
     [x |-> [data |-> Pair(1, 3), combined |-> Pair(1, 9)]],
     [y |-> [combined |-> Pair(1, 9)]]}

NormApply ==
    /\ exprs # <<>>
    /\ \E ranges \in RangesGiven :
           Evaluate(Len(exprs), "table", [Defaults EXCEPT !.ranges = ranges])

NextNorm ==
    \/ NormNew
    \/ NormScale
    \/ Normalize
    \/ NormApply

SpecNorm == Init /\ [][NextNorm]_vars

---------------------------------------------------------------------------
\* numpy arrays of Python scalars: dtype is the kind of the array's dtype
\* ("i" integer, "f" float, "U" unicode, "O" object).
PFloat(q) == [k |-> "float", v |-> q]

NaN == PFloat(<<0, 0>>)

ndarray(dtype, data) == [k |-> "ndarray", v |-> [dtype |-> dtype, data |-> data]]

\* The number a numeric scalar holds.
Val(x) == IF x.k = "int" THEN Q(x.v, 1) ELSE x.v

\* str(x) of an int, of a float with denominator 1 or 2, or of a str.
str(x) ==
    IF x.k = "int" THEN PStr(ToString(x.v))
    ELSE IF x.k = "float"
    THEN PStr(ToString(x.v[1] \div x.v[2]) \o (IF x.v[2] = 1 THEN ".0" ELSE ".5"))
    ELSE x

\* float(x) of an int or a float; numpy stores None in a float array as nan.
float(x) ==
    IF x.k = "int" THEN PFloat(Q(x.v, 1)) ELSE IF x = None THEN NaN ELSE x

\* np.asarray of a list of scalars: one dtype for all the elements, object
\* when a None is among them, unicode when a str is, else float or integer.
asarray(a) ==
    LET kinds == {a[i].k : i \in DOMAIN a}
    IN  IF a = <<>> THEN ndarray("f", <<>>)
        ELSE IF "none" \in kinds THEN ndarray("O", a)
        ELSE IF "str" \in kinds THEN ndarray("U", [i \in DOMAIN a |-> str(a[i])])
        ELSE IF "float" \in kinds THEN ndarray("f", [i \in DOMAIN a |-> float(a[i])])
        ELSE ndarray("i", a)

\* np.full_like(values, fill, dtype=dtype)
full_like(vals, fill, dtype) ==
    ndarray(IF dtype = "float" THEN "f" ELSE "O",
            [j \in DOMAIN vals.v.data |-> IF dtype = "float" THEN float(fill) ELSE fill])

\* (values > lower) & (values <= upper), for one value: as written, and
\* as it would be with the lower boundary inside the bin.
condition_closed_below(v, lower, upper) ==
    QLe(Val(lower), Val(v)) /\ QLe(Val(v), Val(upper))

condition(v, lower, upper) ==
    ~QLe(Val(v), Val(lower)) /\ QLe(Val(v), Val(upper))

\* The loop of bin over zip(bins[:-1], bins[1:], labels), from its i-th round.
RECURSIVE bin_loop(_, _, _, _, _)
bin_loop(binned, vals, bins, labels, i) ==
    IF i > Len(bins) - 1 \/ i > Len(labels) THEN binned
    ELSE bin_loop([j \in DOMAIN binned |->
                      IF condition(vals[j], bins[i], bins[i + 1])
                      THEN labels[i] ELSE binned[j]],
                  vals, bins, labels, i + 1)

\* bin(values, bins, labels=None); bins and labels are lists.
bin(vals, bins, labels) ==
    LET b == asarray(bins.v).v.data
        l == IF labels = None
             THEN ndarray("f", [i \in 1..(Len(b) - 1) |->
                      PFloat(QAdd(Val(b[i]),
                                  QDiv(QSub(Val(b[i + 1]), Val(b[i])), Q(2, 1))))])
             ELSE asarray(labels.v)
        dtype == IF l.v.dtype = "f" THEN "float" ELSE "O"
        binned == full_like(vals, IF dtype = "f" THEN NaN ELSE None, dtype)
    IN  ndarray(binned.v.dtype, bin_loop(binned.v.data, vals.v.data, b, l.v.data, 1))

\* list(unique_iterator(values)): the distinct values in first-seen order.
RECURSIVE unique_iterator(_)
unique_iterator(seq) ==
    IF seq = <<>> THEN <<>>
    ELSE LET rest == unique_iterator(SubSeq(seq, 1, Len(seq) - 1))
             c == seq[Len(seq)]
         IN  IF c \in Range(rest) THEN rest ELSE Append(rest, c)

\* list.index(c), counted from 0.
index(seq, c) == (CHOOSE i \in DOMAIN seq : seq[i] = c /\ \A j \in 1..(i - 1) : seq[j] # c) - 1

\* categorize(values, categories, default=None); categories is a list or
\* a dict keyed by values.
categorize(vals, categories, default) ==
    LET uniq_cats == unique_iterator(vals.v.data)
        cat(c) ==
            IF categories.k = "list"
            THEN LET cat_ind == index(uniq_cats, c)
                 IN  IF cat_ind < Len(categories.v)
                     THEN categories.v[cat_ind + 1] ELSE default
            ELSE IF c.v \in DOMAIN categories.v THEN categories.v[c.v] ELSE default
        cats == [i \in DOMAIN vals.v.data |-> cat(vals.v.data[i])]
        result == asarray(cats)
    IN  IF result.v.dtype \in {"U", "S"} THEN ndarray("O", result.v.data) ELSE result

\* The sequences over S of lengths lo..hi.
SeqsOf(S, lo, hi) == UNION {[1..n -> S] : n \in lo..hi}

PDict(d) == [k |-> "dict", v |-> d]

\* The call of a function of this module that is about to be made.
Pending(fn, args, kwargs) ==
    /\ exprs = <<>>
    /\ lists = <<>>
    /\ custom_funcs = _custom_funcs_initial
    /\ last = [call |-> "", obj |-> Fn(fn), args |-> args, kwargs |-> kwargs,
               exc |-> "", ret |-> None]

\* Labels for n bins: none, floats, integers or strings.
LabelsGiven(n) ==
    {None,
     PList([i \in 1..n |-> PFloat(Q(2 * i + 1, 2))]),
     PList([i \in 1..n |-> PInt(10 * i)]),
     PList([i \in 1..n |-> PStr(<<"a", "b", "c", "d">>[i])])}

\* bin on arrays of integers, with boundaries drawn from the same numbers.
InitBin ==
    \E vals \in SeqsOf({PInt(i) : i \in 0..3}, 1, MaxValues),
       bins \in SeqsOf({PInt(i) : i \in 0..3}, 2, MaxBins) :
        \E labels \in LabelsGiven(Len(bins) - 1) :
            Pending("bin", <<ndarray("i", vals), PList(bins)>>, [labels |-> labels])

BinCall ==
    /\ last.call = ""
    /\ last.obj = Fn("bin")
    /\ last' = [last EXCEPT !.call = "bin",
                            !.ret = bin(last.args[1], last.args[2], last.kwargs.labels)]
    /\ UNCHANGED <<exprs, lists, custom_funcs>>

SpecBin == InitBin /\ [][BinCall]_vars

\* categorize on arrays of strings, with categories and defaults that are
\* strings, integers or None.
CategoryLabels == {PStr("a"), PInt(1)}

InitCategorize ==
    \E vals \in SeqsOf({PStr("p"), PStr("q"), PStr("r")}, 1, MaxValues + 1),
       categories \in
           {PList(c) : c \in SeqsOf(CategoryLabels, 0, MaxCategories)}
           \cup {PDict(d) : d \in UNION {[K -> CategoryLabels] : K \in SUBSET {"p", "q"}}},
       default \in {None, PInt(0), PStr("z")} :
        Pending("categorize", <<ndarray("U", vals)>>,
                [categories |-> categories, default |-> default])

CategorizeCall ==
    /\ last.call = ""
    /\ last.obj = Fn("categorize")
    /\ last' = [last EXCEPT !.call = "categorize",
                            !.ret = categorize(last.args[1], last.kwargs.categories,
                                               last.kwargs.default)]
    /\ UNCHANGED <<exprs, lists, custom_funcs>>

SpecCategorize == InitCategorize /\ [][CategorizeCall]_vars

---------------------------------------------------------------------------
\* dim.register(key, function): `cls._custom_funcs[key] = function`
register(funcs, key, function) ==
    [f \in DOMAIN funcs \cup {key} |-> IF f = key THEN function ELSE funcs[f]]

\* A session of registrations: transforms are registered under a name, and
\* dims are built with the transform or with the name as their function.
RegisterNew ==
    /\ Len(exprs) < MaxRegisterExprs
    /\ Construct("dim", PStr("x"), <<>>, EmptyDict, "")

\* dim.register('double', double), dim.register('half', half)
Register ==
    \E n \in {"double", "half"} :
        /\ custom_funcs' = register(custom_funcs, PStr(n), Fn(n))
        /\ last' = [call |-> "register", obj |-> None, args |-> <<PStr(n), Fn(n)>>,
                    kwargs |-> EmptyDict, exc |-> "", ret |-> None]
        /\ UNCHANGED <<exprs, lists>>

\* dim(e, double), dim(e, 'double'), dim(e, 'half')
RegisterConstruct ==
    /\ Len(exprs) < MaxRegisterExprs
    /\ \E i \in DOMAIN exprs, fn \in {Fn("double"), PStr("double"), PStr("half")} :
           Construct("dim", Ref(i), <<fn>>, EmptyDict, "")

RegisterApply ==
    /\ exprs # <<>>
    /\ Evaluate(Len(exprs), "table", Defaults)

NextRegister ==
    \/ RegisterNew
    \/ Register
    \/ RegisterConstruct
    \/ RegisterApply

SpecRegister == Init /\ [][NextRegister]_vars

---------------------------------------------------------------------------
\* A session of method calls on the dim made last, over a dimension of the
\* sources ("x") and one that no source has ("z").
\* The call e.m(*args, **kwargs) of a method that ends in the call c of dim.
Method(call, self, args, kwargs, c) ==
    LET r == IF c.exc # "" THEN [exc |-> c.exc, self |-> NoExpr, lists |-> lists]
             ELSE dim_init(c.obj, c.args, c.kwargs)
    IN  /\ exprs' = IF r.exc = "" THEN Append(exprs, r.self) ELSE exprs
        /\ lists' = r.lists
        /\ last' = [call |-> call, obj |-> self, args |-> args, kwargs |-> kwargs,
                    exc |-> r.exc,
                    ret |-> IF r.exc = "" THEN Ref(Len(exprs) + 1) ELSE None]
        /\ UNCHANGED custom_funcs

MethodNew ==
    /\ Len(exprs) < MaxMethodExprs
    /\ \E n \in {"x", "z"} : Construct("dim", PStr(n), <<>>, EmptyDict, "")

\* e.clip(), e.clip(min=0), e.clip(max=2), e.clip(0, 2)
MethodClip ==
    /\ Len(exprs) < MaxMethodExprs
    /\ exprs # <<>>
    /\ \E min \in {None, PInt(0)}, max \in {None, PInt(2)} :
           LET self == Ref(Len(exprs))
           IN  Method("clip", self, <<min, max>>, EmptyDict, clip(self, min, max))

\* pipe as it would be if only the first argument were promoted.
pipe_first(func, args, kwargs) ==
    IF args = <<>> THEN [obj |-> None, args |-> <<>>, kwargs |-> kwargs, exc |-> "IndexError"]
    ELSE DimCall(IF args[1].k = "str" THEN Temp(args[1].v) ELSE args[1],
                 <<func>> \o Tail(args), kwargs)

\* dim.pipe(func, *args, **kwargs)
pipe(func, args, kwargs) ==
    LET promoted == [k \in DOMAIN args |->
                        IF args[k].k = "str" THEN Temp(args[k].v) ELSE args[k]]
    IN  IF args = <<>>
        THEN [obj |-> None, args |-> <<>>, kwargs |-> kwargs, exc |-> "IndexError"]
        ELSE IF promoted[1].k \notin {"dim", "ref"}
        THEN [obj |-> None, args |-> <<>>, kwargs |-> kwargs, exc |-> "AttributeError"]
        ELSE DimCall(promoted[1], <<func>> \o Tail(promoted), kwargs)

\* dim.pipe(np.hypot, 'x'), dim.pipe(np.hypot, 'x', 'z', 3),
\* dim.pipe(np.hypot, e, 'x', e), each also with keywords.
MethodPipe ==
    /\ Len(exprs) < MaxMethodExprs
    /\ \E args \in {<<PStr("x")>>, <<PStr("x"), PStr("z"), PInt(3)>>}
                   \cup {<<Ref(i), PStr("x"), DimV(Deref(i))>> : i \in {Len(exprs)} \ {0}},
          kwargs \in {EmptyDict, [scale |-> PInt(2), reverse |-> PBool(TRUE)]} :
           Method("pipe", Fn("hypot"), args, kwargs, pipe(Fn("hypot"), args, kwargs))

\* dim.__array_ufunc__(self, *args, **kwargs); numpy calls it with
\* args = (ufunc, method, *inputs).
array_ufunc(self, args, kwargs) ==
    LET ufunc == args[1]
        kept == {n \in DOMAIN kwargs : kwargs[n] # None}
    IN  DimCall(self, <<ufunc>>, [n \in kept |-> kwargs[n]])

\* np.sqrt(e), np.power(e, 2), each also with out=None, dtype='f8'
MethodUfunc ==
    /\ Len(exprs) < MaxMethodExprs
    /\ exprs # <<>>
    /\ \E call \in {<<Fn("sqrt")>>, <<Fn("power"), PInt(2)>>},
          kwargs \in {EmptyDict, [out |-> None, dtype |-> PStr("f8")]} :
           LET self == Ref(Len(exprs))
               args == <<call[1], PStr("__call__"), self>> \o Tail(call)
           IN  Method("ufunc", self, args, kwargs, array_ufunc(self, args, kwargs))

MethodApply ==
    /\ exprs # <<>>
    /\ Evaluate(Len(exprs), "table", Defaults)

MethodApplies ==
    /\ exprs # <<>>
    /\ \E dataset \in {"graph"} :
           /\ last' = [call |-> "applies", obj |-> Ref(Len(exprs)),
                       args |-> <<PStr(dataset)>>, kwargs |-> EmptyDict,
                       exc |-> "",
                       ret |-> PBool(applies(Deref(Len(exprs)), dataset))]
           /\ UNCHANGED <<exprs, lists, custom_funcs>>

NextMethods ==
    \/ MethodNew
    \/ MethodClip
    \/ MethodPipe
    \/ MethodUfunc
    \/ MethodApply
    \/ MethodApplies

SpecMethods == Init /\ [][NextMethods]_vars

---------------------------------------------------------------------------
\* dim.__repr__.  Text is a string.
endswith(s, t) == Len(s) >= Len(t) /\ SubSeq(s, Len(s) - Len(t) + 1, Len(s)) = t

startswith(s, t) == Len(s) >= Len(t) /\ SubSeq(s, 1, Len(t)) = t

\* `t in s`
contains(s, t) == \E i \in 1..(Len(s) - Len(t) + 1) : SubSeq(s, i, i + Len(t) - 1) = t

\* sep.join(strings)
RECURSIVE join(_, _)
join(strings, sep) ==
    IF strings = <<>> THEN ""
    ELSE IF Len(strings) = 1 THEN strings[1]
    ELSE strings[1] \o sep \o join(Tail(strings), sep)

\* The keyword names of the model in the order sorted() gives them.
KeywordOrder ==
    <<"a_max", "a_min", "axis", "categories", "decimals", "default", "dtype",
      "keepdims", "labels", "max", "min", "out", "scale">>

\* sorted(kwargs.items(), key=operator.itemgetter(0)), the names only.
sorted(names) == SelectSeq(KeywordOrder, LAMBDA n : n \in names)

\* isinstance(fn, np.ufunc) for the functions of numpy the model names.
np_ufuncs == {"sqrt", "power", "hypot", "isnan", "log", "log10"}

RECURSIVE repr(_)
RECURSIVE pyrepr(_)

\* repr(x) of a Python value
pyrepr(x) ==
    CASE x.k = "int"   -> ToString(x.v)
      [] x.k = "str"   -> "'" \o x.v \o "'"
      [] x.k = "none"  -> "None"
      [] x.k = "bool"  -> IF x.v THEN "True" ELSE "False"
      [] x.k = "dim"   -> repr(x.v)
      [] x.k = "list"  -> "[" \o join([i \in DOMAIN x.v |-> pyrepr(x.v[i])], ", ") \o "]"
      [] x.k = "tuple" -> "(" \o join([i \in DOMAIN x.v |-> pyrepr(x.v[i])], ", ")
                              \o (IF Len(x.v) = 1 THEN "," ELSE "") \o ")"
      [] OTHER         -> "<" \o x.v \o ">"

\* str(x), which '%s' uses
pystr(x) == IF x.k = "str" THEN x.v ELSE pyrepr(x)

\* A binary operation that leaves the accumulated text on the left whatever
\* its reverse flag says.
repr_binary_forward(text, fn_name, args, reverse) == text \o fn_name \o args

\* The format string of a binary operation, filled in.
repr_binary(text, fn_name, args, reverse) ==
    IF reverse THEN args \o fn_name \o text ELSE text \o fn_name \o args

\* One round of the loop of __repr__: the text after operation o, or the
\* exception raised.
repr_op(op_repr, o) ==
    LET prev == IF contains(op_repr, "dim(")
                THEN IF endswith(op_repr, ")") THEN "{repr}" ELSE "({repr})"
                ELSE "dim({repr})"
        text == CASE prev = "{repr}"   -> op_repr
                  [] prev = "({repr})" -> "(" \o op_repr \o ")"
                  [] OTHER             -> "dim(" \o op_repr \o ")"
        fn == o.fn
        ufunc == fn.k = "fn" /\ fn.v \in np_ufuncs
        args == join([i \in DOMAIN o.args |-> pyrepr(o.args[i])], ", ")
        names == sorted(DOMAIN o.kwargs)
        kwargs == join([i \in DOMAIN names |->
                           names[i] \o "=" \o pystr(o.kwargs[names[i]])], ", ")
        tail == (IF args # ""
                 THEN ", " \o args \o (IF kwargs # "" THEN ", " \o kwargs ELSE "")
                 ELSE kwargs) \o ")"
    IN  IF fn \in DOMAIN _binary_funcs
        THEN repr_binary(text, _binary_funcs[fn].v, args, o.reverse)
        ELSE IF fn \in DOMAIN _unary_funcs THEN _unary_funcs[fn].v \o text
        ELSE IF fn.k # "fn" THEN "AttributeError"
        ELSE IF fn \in DOMAIN _builtin_funcs THEN _builtin_funcs[fn].v \o text \o tail
        ELSE IF fn \in DOMAIN _numpy_funcs
        THEN text \o "." \o _numpy_funcs[fn].v \o "(" \o tail
        ELSE IF fn \in DOMAIN custom_funcs
        THEN text \o "." \o pystr(custom_funcs[fn]) \o "(" \o tail
        ELSE IF ufunc
        THEN "np." \o fn.v \o (IF prev = "{repr}" THEN "" ELSE "(") \o text \o tail
        ELSE text \o ", " \o fn.v \o tail

RECURSIVE repr_ops(_, _, _)
repr_ops(op_repr, ops, i) ==
    IF i > Len(ops) \/ op_repr = "AttributeError" THEN op_repr
    ELSE repr_ops(repr_op(op_repr, ops[i]), ops, i + 1)

repr(self) == repr_ops("'" \o self.dimension \o "'", self.ops, 1)

---------------------------------------------------------------------------
\* A session of renderings: dims composed from dim('x') by operators,
\* builtins and methods, each on the latest dim, and repr() of the latest.
ReprNew ==
    /\ Len(exprs) < MaxReprExprs
    /\ Construct("dim", PStr("x"), <<>>, EmptyDict, "")

\* e + 1, e + dim('y'), e * 2
ReprForward ==
    /\ exprs # <<>> /\ Len(exprs) < MaxReprExprs
    /\ \E c \in {<<"add", PInt(1)>>, <<"add", Temp("y")>>, <<"mul", PInt(2)>>} :
           Compose(c[1], forward(c[1], Ref(Len(exprs)), c[2]))

\* 1 - e
ReprReflected ==
    /\ exprs # <<>> /\ Len(exprs) < MaxReprExprs
    /\ Compose("rsub", reflected("rsub", Ref(Len(exprs)), PInt(1)))

\* -e
ReprUnary ==
    /\ exprs # <<>> /\ Len(exprs) < MaxReprExprs
    /\ Compose("neg", unary("neg", Ref(Len(exprs))))

\* abs(e), round(e), round(e, 2)
ReprBuiltin ==
    /\ exprs # <<>> /\ Len(exprs) < MaxReprExprs
    /\ \/ Compose("abs", abs_(Ref(Len(exprs))))
       \/ \E ndigits \in {None, PInt(2)} :
              Compose("round", round__(Ref(Len(exprs)), ndigits))

\* e.sum(), e.sum(0), e.sum(axis=0), e.sum(0, keepdims=True, dtype='f8'),
\* e.bin([0, 1]), e.astype('f8')
ReprMethod ==
    /\ exprs # <<>> /\ Len(exprs) < MaxReprExprs
    /\ \/ \E args \in {<<>>, <<PInt(0)>>} :
          \E kwargs \in {EmptyDict, [keepdims |-> PBool(TRUE), dtype |-> PStr("f8")]} :
              Compose("sum", numpy_method("sum", Ref(Len(exprs)), args, kwargs))
       \/ Compose("sum", numpy_method("sum", Ref(Len(exprs)), <<>>, [axis |-> PInt(0)]))
       \/ Compose("bin", bin_method(Ref(Len(exprs)), PList(<<PInt(0), PInt(1)>>), None))
       \/ Compose("astype", astype_method(Ref(Len(exprs)), PStr("f8")))

\* repr(e)
Repr ==
    /\ exprs # <<>>
    /\ last' = [call |-> "repr", obj |-> Ref(Len(exprs)), args |-> <<>>,
                kwargs |-> EmptyDict, exc |-> "",
                ret |-> PStr(repr(Deref(Len(exprs))))]
    /\ UNCHANGED <<exprs, lists, custom_funcs>>

NextRepr ==
    \/ ReprNew
    \/ ReprForward
    \/ ReprReflected
    \/ ReprUnary
    \/ ReprBuiltin
    \/ ReprMethod
    \/ Repr

SpecRepr == Init /\ [][NextRepr]_vars

---------------------------------------------------------------------------
\* A session of the expanded flag: dims over the key and value dimensions
\* of the sources, and apply on a table, a grid and a multi-geometry source
\* with expanded unset, True and False.
ExpandedNew ==
    /\ Len(exprs) < MaxExpandedExprs
    /\ \E n \in {"x", "y", "w"} : Construct("dim", PStr(n), <<>>, EmptyDict, "")

\* e * 2
ExpandedForward ==
    /\ exprs # <<>> /\ Len(exprs) < MaxExpandedExprs
    /\ Compose("mul", forward("mul", Ref(Len(exprs)), PInt(2)))

ExpandedApply ==
    \E i \in DOMAIN exprs :
    \E dataset \in {"table", "grid", "paths"} :
    \E expanded \in {None, PBool(TRUE), PBool(FALSE)} :
        Evaluate(i, dataset, [Defaults EXCEPT !.expanded = expanded])

NextExpanded ==
    \/ ExpandedNew
    \/ ExpandedForward
    \/ ExpandedApply

SpecExpanded == Init /\ [][NextExpanded]_vars

---------------------------------------------------------------------------
\* A session of the graph: dims over the dimensions of the graph, of its
\* nodes and of neither, and apply on the graph and on a table with and
\* without all_values.
GraphNew ==
    /\ Len(exprs) < MaxGraphExprs
    /\ \E n \in {"x", "x2", "w", "y", "label", "z"} :
           Construct("dim", PStr(n), <<>>, EmptyDict, "")

\* e * 2
GraphForward ==
    /\ exprs # <<>> /\ Len(exprs) < MaxGraphExprs
    /\ Compose("mul", forward("mul", Ref(Len(exprs)), PInt(2)))

GraphApply ==
    /\ exprs # <<>>
    /\ \E dataset \in {"graph", "table"} :
       \E all_values \in BOOLEAN :
           Evaluate(Len(exprs), dataset,
                    [Defaults EXCEPT !.all_values = PBool(all_values)])

NextGraph ==
    \/ GraphNew
    \/ GraphForward
    \/ GraphApply

SpecGraph == Init /\ [][NextGraph]_vars

---------------------------------------------------------------------------
\* _maybe_map.  Containers of values: numpy arrays, pandas Series (values
\* with an index), dask Series (partitions that are Series) and dask arrays
\* (blocks that are arrays).
Series(v, idx) == [k |-> "Series", v |-> v, index |-> idx]

DaskSeries(partitions) == [k |-> "dask.Series", partitions |-> partitions]

DaskArray(blocks) == [k |-> "dask.Array", partitions |-> blocks]

\* hasattr(values, 'index')
series_like(vals) == vals.k \in {"Series", "dask.Series"}

\* values.map_partitions or values.map_blocks
has_map_fn(vals) == vals.k \in {"dask.Series", "dask.Array"}

\* pandas.Series(data, index=index): data of an array in its order, data of
\* a Series by the labels of the index.
SeriesNew(data, idx) ==
    IF data.k = "Series"
    THEN Series([dtype |-> data.v.dtype,
                 data |-> [i \in DOMAIN idx |->
                              IF idx[i] \in Range(data.index)
                              THEN data.v.data[CHOOSE j \in DOMAIN data.index :
                                                   data.index[j] = idx[i]]
                              ELSE NaN]],
                idx)
    ELSE IF Len(data.v.data) # Len(idx) THEN Raise("ValueError")
    ELSE Series(data.v, idx)

\* The functions that are wrapped, on an array or a Series: np.isin and bin
\* give an array, np.round gives what it was given.
numpy_fn(fn, s, args, kwargs) ==
    CASE fn = "isin" ->
             ndarray("b", [i \in DOMAIN s.v.data |->
                              PBool(s.v.data[i] \in Range(args[1].v))])
      [] fn = "round_" -> s
      [] fn = "bin" -> bin(ndarray(s.v.dtype, s.v.data), args[1], kwargs.labels)

\* map_partitions and map_blocks of the container: a container of the
\* results the function gave for each partition, in their order.
map_fn(vals, results) == [k |-> vals.k, partitions |-> results]

\* The wrapper as it would be if nothing were series-like.
_maybe_map_unindexed(fn, vals, args, kwargs) ==
    IF has_map_fn(vals)
    THEN [ret |-> map_fn(vals, [i \in DOMAIN vals.partitions |->
                                   numpy_fn(fn, vals.partitions[i], args, kwargs)]),
          calls |-> vals.partitions]
    ELSE [ret |-> numpy_fn(fn, vals, args, kwargs), calls |-> <<vals>>]

\* _maybe_map(numpy_fn)(values, *args, **kwargs): what it returns, and the
\* inputs numpy_fn was called on.
_maybe_map(fn, vals, args, kwargs) ==
    IF has_map_fn(vals)
    THEN IF series_like(vals)
         THEN [ret |-> map_fn(vals, [i \in DOMAIN vals.partitions |->
                                        LET s == vals.partitions[i]
                                        IN  SeriesNew(numpy_fn(fn, s, args, kwargs),
                                                      s.index)]),
               calls |-> vals.partitions]
         ELSE [ret |-> map_fn(vals, [i \in DOMAIN vals.partitions |->
                                        numpy_fn(fn, vals.partitions[i], args, kwargs)]),
               calls |-> vals.partitions]
    ELSE IF series_like(vals)
         THEN [ret |-> SeriesNew(numpy_fn(fn, vals, args, kwargs), vals.index),
               calls |-> <<vals>>]
         ELSE [ret |-> numpy_fn(fn, vals, args, kwargs), calls |-> <<vals>>]

\* Containers of the integers 1 and 2.
Labels == <<"a", "b", "c", "d">>

Arrays == {ndarray("i", a) : a \in SeqsOf({PInt(1), PInt(2)}, 1, MaxChunk)}

\* A Series on an array: its labels in order or in reverse.
SeriesOn(a) ==
    LET n == Len(a.v.data)
    IN  {Series(a.v, [i \in 1..n |-> Labels[i]]),
         Series(a.v, [i \in 1..n |-> Labels[n + 1 - i]])}

AllSeries == UNION {SeriesOn(a) : a \in Arrays}

Containers ==
    Arrays \cup AllSeries
    \cup {DaskSeries(p) : p \in SeqsOf(AllSeries, 1, MaxPartitions)}
    \cup {DaskArray(b) : b \in SeqsOf(Arrays, 1, MaxPartitions)}

\* isin(values, [1]), round_(values), bin(values, [0, 1, 2])
InitMaybeMap ==
    \E vals \in Containers :
        \/ Pending("isin", <<vals, PList(<<PInt(1)>>)>>, EmptyDict)
        \/ Pending("round_", <<vals>>, EmptyDict)
        \/ Pending("bin", <<vals, PList(<<PInt(0), PInt(1), PInt(2)>>)>>,
                   [labels |-> None])

MaybeMapCall ==
    /\ last.call = ""
    /\ last.obj.v \in {"isin", "round_", "bin"}
    /\ last' = [last EXCEPT
                   !.call = "_maybe_map",
                   !.ret = _maybe_map(last.obj.v, last.args[1], Tail(last.args),
                                      last.kwargs)]
    /\ UNCHANGED <<exprs, lists, custom_funcs>>

SpecMaybeMap == InitMaybeMap /\ [][MaybeMapCall]_vars

---------------------------------------------------------------------------
\* to_spatialpandas(data, xdim, ydim, columns, geom).  A record is a
\* function from names to values; coordinates are scalars or lists of
\* floats in which nan separates sub-paths.
isscalar(x) == x.k \in {"int", "float"}

\* np.column_stack([xs, ys]): the rows.
column_stack(xs, ys) == [i \in DOMAIN xs |-> <<xs[i], ys[i]>>]

\* A row np.isnan(...).sum(axis=1) counts a nan in.
NaNRow(row) == row[1] = NaN \/ row[2] = NaN

\* np.split(geom, splits + 1) if len(splits) else [geom]: every section but
\* the last ends with a nan row.
RECURSIVE np_split(_)
np_split(geom) ==
    IF \E i \in DOMAIN geom : NaNRow(geom[i])
    THEN LET s == CHOOSE i \in DOMAIN geom :
                      NaNRow(geom[i]) /\ \A j \in 1..(i - 1) : ~NaNRow(geom[j])
         IN  <<SubSeq(geom, 1, s)>> \o np_split(SubSeq(geom, s + 1, Len(geom)))
    ELSE <<geom>>

\* dict.pop(key): the dict without the key.
Without(path, key) == [c \in DOMAIN path \ {key} |-> path[c]]

\* lines[c].append(v) for c, v in path.items()
append_items(lines, path) ==
    [c \in DOMAIN lines \cup DOMAIN path |->
        IF c \in DOMAIN path
        THEN Append(IF c \in DOMAIN lines THEN lines[c] ELSE <<>>, path[c])
        ELSE lines[c]]

\* The loop over the sub-paths of one record, from its i-th round (i counts
\* from 0): the exception raised if any, the lines and the parts.
RECURSIVE paths_loop(_, _, _, _, _, _)
paths_loop(paths, i, path, lines, parts, poly) ==
    IF i >= Len(paths) THEN [exc |-> "", lines |-> lines, parts |-> parts]
    ELSE LET p == IF i # Len(paths) - 1
                  THEN SubSeq(paths[i + 1], 1, Len(paths[i + 1]) - 1)
                  ELSE paths[i + 1]
             holes == IF "holes" \in DOMAIN path THEN path.holes ELSE None
             popped == Without(path, "holes")
             appended == append_items(lines, popped)
         IN  IF Len(p) < (IF poly THEN 3 ELSE 2)
             THEN paths_loop(paths, i + 1, path, lines, parts, poly)
             ELSE IF ~poly
             THEN paths_loop(paths, i + 1, popped, appended, Append(parts, p), poly)
             ELSE IF holes = None
             THEN [exc |-> "TypeError", lines |-> appended, parts |-> Append(parts, <<p>>)]
             ELSE IF i >= Len(holes.v)
             THEN [exc |-> "IndexError", lines |-> appended, parts |-> Append(parts, <<p>>)]
             ELSE paths_loop(paths, i + 1, popped, appended,
                             Append(parts, <<p>> \o holes.v[i + 1].v), poly)

\* The geometry types chosen before the loop.
geometry_types(poly, geom) ==
    IF poly THEN [single |-> "Polygon", multi |-> "MultiPolygon"]
    ELSE IF geom = "Polygon" THEN [single |-> "Ring", multi |-> "MultiLine"]
    ELSE IF geom = "Line" THEN [single |-> "Line", multi |-> "MultiLine"]
    ELSE [single |-> "Point", multi |-> "MultiPoint"]

Geometry(type, n) == [k |-> "geometry", v |-> [type |-> type, parts |-> n]]

RECURSIVE Sum(_)
Sum(s) == IF s = <<>> THEN 0 ELSE Head(s) + Sum(Tail(s))

\* One round of the loop over the records: the exception raised if any and
\* the lines after it.
record_step(record, lines, xdim, ydim, poly, geom) ==
    IF xdim \notin DOMAIN record \/ ydim \notin DOMAIN record
    THEN [exc |-> "DataError", lines |-> lines]
    ELSE LET xs0 == record[xdim]
             ys0 == record[ydim]
             path == Without(Without(record, xdim), ydim)
             xs == IF isscalar(xs0)
                   THEN IF isscalar(ys0) THEN <<xs0>> ELSE [i \in DOMAIN ys0.v |-> xs0]
                   ELSE xs0.v
             ys == IF isscalar(ys0)
                   THEN IF isscalar(xs0) THEN <<ys0>> ELSE [i \in DOMAIN xs0.v |-> ys0]
                   ELSE ys0.v
             types == geometry_types(poly, geom)
         IN  IF Len(xs) # Len(ys) THEN [exc |-> "ValueError", lines |-> lines]
             ELSE LET r == paths_loop(np_split(column_stack(xs, ys)), 0, path,
                                      lines, <<>>, poly)
                      n == Len(r.parts)
                      points == Sum([j \in DOMAIN r.parts |-> Len(r.parts[j])])
                      geom_type ==
                          IF types.single = "Point"
                          THEN IF points > 1 THEN types.multi ELSE types.single
                          ELSE IF n > 1 THEN types.multi ELSE types.single
                  IN  IF r.exc # "" THEN [exc |-> r.exc, lines |-> r.lines]
                      ELSE IF geom_type = types.single /\ n = 0
                      THEN [exc |-> "IndexError", lines |-> r.lines]
                      ELSE [exc |-> "",
                            lines |-> [r.lines EXCEPT
                                          !.geometry = Append(@, Geometry(geom_type, n))]]

\* GeoDataFrame(lines, columns=['geometry'] + columns): the columns must be
\* as long as one another.
GeoDataFrame(lines, columns) ==
    IF \E c \in DOMAIN lines : Len(lines[c]) # Len(lines.geometry)
    THEN Raise("ValueError")
    ELSE [k |-> "GeoDataFrame",
          v |-> [c \in {"geometry"} \cup Range(columns) |->
                    IF c \in DOMAIN lines THEN lines[c] ELSE <<>>]]

\* Coordinates: sub-paths of the given numbers of points, nan between them.
One == PFloat(Q(1, 1))

RECURSIVE Coordinates(_)
Coordinates(segments) ==
    LET points == [i \in 1..Head(segments) |-> One]
    IN  IF Len(segments) = 1 THEN points
        ELSE points \o <<NaN>> \o Coordinates(Tail(segments))

Segments == {<<1>>, <<2>>, <<3>>, <<2, 2>>, <<2, 0>>, <<3, 3>>}

\* Records with a column v: a point, paths, a path with a scalar y, polygons
\* with a list of holes for each sub-path, and a record without y.
Records ==
    {[x |-> One, y |-> One, v |-> PInt(7)],
     [x |-> PList(<<One, One>>), y |-> One, v |-> PInt(7)],
     [x |-> One, v |-> PInt(7)]}
    \cup {[x |-> PList(Coordinates(s)), y |-> PList(Coordinates(s)), v |-> PInt(7)] :
              s \in Segments}
    \cup {[x |-> PList(Coordinates(s)), y |-> PList(Coordinates(s)), v |-> PInt(7),
           holes |-> PList([i \in DOMAIN s |-> PList(<<>>)])] : s \in {<<3>>, <<3, 3>>}}

\* The frame of a call of to_spatialpandas: the lines collected and the
\* number of records the loop has been through.
Frame(lines, n, done) == [k |-> "frame", v |-> [lines |-> lines, n |-> n, done |-> done]]

InitSpatial ==
    \E data \in SeqsOf(Records, 0, MaxRecords), geom \in {"point", "Line", "Polygon"} :
        /\ exprs = <<>>
        /\ lists = <<>>
        /\ custom_funcs = _custom_funcs_initial
        /\ last = [call |-> "to_spatialpandas", obj |-> Fn("to_spatialpandas"),
                   args |-> <<PList(data), PStr("x"), PStr("y")>>,
                   kwargs |-> [columns |-> PList(<<"v">>), geom |-> PStr(geom)],
                   exc |-> "", ret |-> Frame([geometry |-> <<>>], 0, FALSE)]

\* One round of the loop over the records.
SpatialRecord ==
    /\ last.call = "to_spatialpandas" /\ last.exc = "" /\ last.ret.k = "frame"
    /\ last.ret.v.n < Len(last.args[1].v)
    /\ LET data == last.args[1].v
           poly == \E i \in DOMAIN data : "holes" \in DOMAIN data[i]
           r == record_step(data[last.ret.v.n + 1], last.ret.v.lines,
                            last.args[2].v, last.args[3].v, poly, last.kwargs.geom.v)
       IN  last' = [last EXCEPT !.exc = r.exc,
                                !.ret = Frame(r.lines, last.ret.v.n + 1, FALSE)]
    /\ UNCHANGED <<exprs, lists, custom_funcs>>

\* The return after the loop.
SpatialReturn ==
    /\ last.call = "to_spatialpandas" /\ last.exc = "" /\ last.ret.k = "frame"
    /\ last.ret.v.n = Len(last.args[1].v)
    /\ LET r == GeoDataFrame(last.ret.v.lines, last.kwargs.columns.v)
       IN  last' = [last EXCEPT !.exc = IF r.k = "raise" THEN r.v ELSE "",
                                !.ret = IF r.k = "raise"
                                        THEN Frame(last.ret.v.lines, last.ret.v.n, TRUE)
                                        ELSE r]
    /\ UNCHANGED <<exprs, lists, custom_funcs>>

NextSpatial ==
    \/ SpatialRecord
    \/ SpatialReturn

SpecSpatial == InitSpatial /\ [][NextSpatial]_vars

---------------------------------------------------------------------------
Op(fn, args, kwargs, reverse) ==
    [args |-> args, fn |-> Fn(fn), kwargs |-> kwargs, reverse |-> reverse]

\* The operations of the held expression i.
OpsOf(i) == lists[exprs[i].ops]

\* A dim without its last operation.
Prefix(e) == [dimension |-> e.dimension, ops |-> SubSeq(e.ops, 1, Len(e.ops) - 1)]

\* A column as an array of numbers.
ColumnArray(ds, d) == Array([i \in DOMAIN Column(ds, d) |-> Q(Column(ds, d)[i], 1)])

Ints(s) == Array([i \in DOMAIN s |-> Q(s[i], 1)])

(***************************************************************************)
(* C1  Immutability.  No call changes the dimension or the operations of   *)
(* an expression that exists, and a composition call on a receiver e      *)
(* makes one new expression, with a list of its own, whose dimension is   *)
(* e's and whose operations are e's followed by exactly one operation,    *)
(* that of the function composed.                                         *)
(***************************************************************************)
C1_Immutability ==
    [][/\ \A i \in DOMAIN exprs :
              /\ i \in DOMAIN exprs'
              /\ exprs'[i].dimension = exprs[i].dimension
              /\ lists'[exprs'[i].ops] = lists[exprs[i].ops]
       /\ (Len(exprs') # Len(exprs) /\ last'.obj.k = "ref" /\ last'.args # <<>>) =>
              LET e == last'.obj.v
                  new == Len(exprs')
                  old == lists[exprs[e].ops]
                  ops == lists'[exprs'[new].ops]
              IN  /\ new = Len(exprs) + 1
                  /\ last'.ret = Ref(new)
                  /\ exprs'[new].dimension = exprs[e].dimension
                  /\ Len(ops) = Len(old) + 1
                  /\ SubSeq(ops, 1, Len(old)) = old
                  /\ ops[Len(ops)].fn = last'.args[1]
                  /\ \A i \in DOMAIN exprs : exprs'[new].ops # exprs[i].ops
      ]_vars

\* A receiver composed twice, to two different expressions, and then an
\* evaluation.
C1_Witness ==
    /\ Len(exprs) = 3
    /\ last.call \in {"apply", "applies"}
    /\ OpsOf(1) = <<>>
    /\ Len(OpsOf(2)) = 1
    /\ Len(OpsOf(3)) = 1
    /\ OpsOf(2) # OpsOf(3)

(***************************************************************************)
(* C2  Composition order.  What apply returns is the call of the last      *)
(* operation on what apply returns for the expression without it, and for *)
(* an expression without operations the extracted values themselves;      *)
(* dim('x') * 2 + 1 on x = [1, 2, 3] is [3, 5, 7].                         *)
(***************************************************************************)
C2_CompositionOrder ==
    (last.call = "apply" /\ last.exc = "") =>
        LET e == Deref(last.obj.v)
            ds == last.args[1].v
            n == Len(e.ops)
            ret == last.ret
        IN  /\ n = 0 =>
                /\ ret.k = "values"
                /\ ~IsGraph(ds) =>
                      /\ ret.v.dataset = ds
                      /\ ret.v.dimension = e.dimension
                      /\ Denote(ret) = ColumnArray(ds, e.dimension)
            /\ n > 0 =>
                /\ ret.k = "call"
                /\ Fn(ret.v.fn) = e.ops[n].fn
                /\ ret.v.args[IF e.ops[n].reverse THEN Len(ret.v.args) ELSE 1]
                      = apply(Prefix(e), ds, last.kwargs)
            /\ (ds = "table" /\ e.dimension = "x"
                /\ e.ops = <<Op("mul", <<PInt(2)>>, EmptyDict, FALSE),
                             Op("add", <<PInt(1)>>, EmptyDict, FALSE)>>)
                  => Denote(ret) = Ints(<<3, 5, 7>>)

C2_Witness ==
    /\ last.call = "apply"
    /\ last.exc = ""
    /\ last.args = <<PStr("table")>>
    /\ Deref(last.obj.v) =
          [dimension |-> "x",
           ops |-> <<Op("mul", <<PInt(2)>>, EmptyDict, FALSE),
                     Op("add", <<PInt(1)>>, EmptyDict, FALSE)>>]
    /\ Denote(last.ret) = Ints(<<3, 5, 7>>)

(***************************************************************************)
(* C3  Reverse operators.  Each reflected entry point called with `other`  *)
(* returns a new expression whose added operation holds the operator of   *)
(* the forward entry point it mirrors, the arguments (other) and          *)
(* reverse = TRUE, so that apply calls the operator on (other, current    *)
(* value); each forward entry point stores reverse = FALSE.               *)
(***************************************************************************)
C3_ReverseOperators ==
    /\ last.call \in reflected_methods =>
          /\ last.exc = ""
          /\ LET e == Deref(last.ret.v)
                 r == Deref(last.obj.v)
                 fn == forward_methods[mirror[last.call]]
                 other == last.args[2]
             IN  /\ e.ops = Append(r.ops, Op(fn, <<other>>, EmptyDict, TRUE))
                 /\ apply(e, "table", Defaults)
                       = Call(Fn(fn), <<other, apply(r, "table", Defaults)>>, EmptyDict)
    /\ (last.call \in DOMAIN forward_methods /\ last.exc = "") =>
          LET e == Deref(last.ret.v)
          IN  e.ops[Len(e.ops)] =
                 Op(forward_methods[last.call], <<last.args[2]>>, EmptyDict, FALSE)

\* fn is a key of one of the registries.
Registered(fn) == \E i \in DOMAIN _all_funcs : fn \in DOMAIN _all_funcs[i]

(***************************************************************************)
(* C4  Bad construction.  dim(obj, fn) with fn not None, not of a function *)
(* type and not a key of a registry raises the ValueError of the          *)
(* constructor and makes no expression, leaving the expressions and the   *)
(* registries as they were; with fn of a function type or a key of a      *)
(* registry it returns a new expression.                                  *)
(***************************************************************************)
C4_BadConstruction ==
    [][(last' # last /\ last'.call = "dim" /\ last'.args # <<>>) =>
          IF function_types(last'.args[1]) \/ Registered(last'.args[1])
          THEN /\ last'.exc = ""
               /\ Len(exprs') = Len(exprs) + 1
          ELSE /\ last'.exc = "ValueError"
               /\ last'.ret = None
               /\ UNCHANGED <<exprs, lists, custom_funcs>>
      ]_vars

\* The anchor of e is a dimension of the source (or of the node table of a
\* graph) and so is that of every dim among the arguments of its
\* operations, positional or keyword, at any depth.
RECURSIVE Resolves(_, _)
Resolves(e, ds) ==
    /\ \/ Contains(ds, e.dimension)
       \/ IsGraph(ds) /\ Contains(nodes(ds), e.dimension)
    /\ \A i \in DOMAIN e.ops :
          /\ \A j \in DOMAIN e.ops[i].args :
                e.ops[i].args[j].k = "dim" => Resolves(e.ops[i].args[j].v, ds)
          /\ \A n \in DOMAIN e.ops[i].kwargs :
                e.ops[i].kwargs[n].k = "dim" => Resolves(e.ops[i].kwargs[n].v, ds)

(***************************************************************************)
(* C5  applies(S) is TRUE exactly when the anchor resolves on S (or on the *)
(* node table of a graph S) and every dim among the arguments of every    *)
(* operation resolves in the same way, at any depth.                      *)
(***************************************************************************)
C5_Applicability ==
    last.call = "applies" =>
        last.ret = PBool(Resolves(Deref(last.obj.v), last.args[1].v))

(***************************************************************************)
(* C6  Nested positional arguments.  The function of an operation is       *)
(* called with the current value followed by the arguments, each dim      *)
(* among them replaced by what apply returns for it on the source and     *)
(* with the flags the outer apply was called with (in reverse order when  *)
(* reverse is set).                                                       *)
(***************************************************************************)
C6_NestedPositional ==
    last.call = "apply" =>
        LET e == Deref(last.obj.v)
            ds == last.args[1].v
            n == Len(e.ops)
            o == e.ops[n]
            cur == apply(Prefix(e), ds, last.kwargs)
            resolved == [j \in DOMAIN o.args |->
                            IF o.args[j].k = "dim"
                            THEN apply(o.args[j].v, ds, last.kwargs)
                            ELSE o.args[j]]
            fn_args == <<cur>> \o resolved
        IN  (/\ n > 0
             /\ cur.k # "raise"
             /\ \A j \in DOMAIN o.args : resolved[j].k # "raise")
            => /\ last.exc = ""
               /\ last.ret.v.args = IF o.reverse THEN Reverse(fn_args) ELSE fn_args

(***************************************************************************)
(* C7  Keyword arguments.  A dim that is the value of a keyword argument   *)
(* of an operation is replaced by what apply returns for it on the same   *)
(* source before the function is called; no function receives a dim as a  *)
(* keyword value.                                                         *)
(***************************************************************************)
C7_KeywordArguments ==
    (last.call = "apply" /\ last.exc = "" /\ last.ret.k = "call") =>
        LET e == Deref(last.obj.v)
            o == e.ops[Len(e.ops)]
        IN  \A n \in DOMAIN o.kwargs :
                o.kwargs[n].k = "dim" =>
                    /\ n \in DOMAIN last.ret.v.kwargs
                    /\ last.ret.v.kwargs[n]
                          = apply(o.kwargs[n].v, last.args[1].v, last.kwargs)

(***************************************************************************)
(* C8  Bounds of norm and lognorm in apply.  With a combined range for the *)
(* anchor dimension in `ranges` and an operation not built with both min  *)
(* and max, the function is called on (current value, lo, hi) of that     *)
(* range; an operation built with limits uses its limits; with neither,   *)
(* the minimum and the maximum of the current value are used.  The result *)
(* is (v - min) / (max - min), in logarithms for lognorm.                 *)
(***************************************************************************)
C8_NormBounds ==
    (last.call = "apply" /\ last.exc = "") =>
        LET e == Deref(last.obj.v)
            n == Len(e.ops)
            o == e.ops[n]
            cur == apply(Prefix(e), last.args[1].v, last.kwargs)
            v == Denote(cur)
            ranges == last.kwargs.ranges
            combined == /\ e.dimension \in DOMAIN ranges
                        /\ "combined" \in DOMAIN ranges[e.dimension]
            explicit == {"min", "max"} \subseteq DOMAIN o.kwargs
            bound(i, name) ==
                IF explicit THEN Denote(o.kwargs[name]).v
                ELSE IF combined
                THEN Denote(ranges[e.dimension]["combined"].v[i]).v
                ELSE IF i = 1 THEN QMin(v.v) ELSE QMax(v.v)
            lo == bound(1, "min")
            hi == bound(2, "max")
        IN  (n > 0 /\ o.fn \in {Fn("norm"), Fn("lognorm")}) =>
               /\ (combined /\ ~explicit) =>
                     /\ last.ret.v.args = <<cur>> \o ranges[e.dimension]["combined"].v
                     /\ last.ret.v.kwargs = EmptyDict
               /\ v.k = "array" =>
                     Denote(last.ret) =
                        IF o.fn = Fn("norm")
                        THEN Array([i \in DOMAIN v.v |->
                                       QDiv(QSub(v.v[i], lo), QSub(hi, lo))])
                        ELSE [k |-> "logarray",
                              v |-> [i \in DOMAIN v.v |-> <<v.v[i], lo, hi>>]]

\* (dim('x') * 2).norm() applied with the combined range (1, 9) of x:
\* [2, 4, 6] becomes [1/8, 3/8, 5/8].
C8_Witness ==
    /\ last.call = "apply"
    /\ last.exc = ""
    /\ last.kwargs.ranges = [x |-> [combined |-> Pair(1, 9)]]
    /\ Deref(last.obj.v).ops = <<Op("mul", <<PInt(2)>>, EmptyDict, FALSE),
                                 Op("norm", <<>>, EmptyDict, FALSE)>>
    /\ Denote(last.ret) = Array(<<Q(1, 8), Q(3, 8), Q(5, 8)>>)

(***************************************************************************)
(* C9  categorize.  The output is as long as the values; with a list of    *)
(* categories, element i is the category at the position of values[i]     *)
(* among the distinct values in first-seen order, or the default when the *)
(* list has no such position; with a dict, element i is the entry of      *)
(* values[i], or the default when there is none.  Equal values receive    *)
(* equal outputs.                                                         *)
(***************************************************************************)
C9_Categorize ==
    last.call = "categorize" =>
        LET vals == last.args[1].v.data
            categories == last.kwargs.categories
            default == last.kwargs.default
            out == last.ret.v.data
            first(c) == CHOOSE i \in DOMAIN vals :
                            vals[i] = c /\ \A j \in 1..(i - 1) : vals[j] # c
            position(c) == Cardinality({vals[j] : j \in 1..(first(c) - 1)})
            expected(c) ==
                IF categories.k = "list"
                THEN IF position(c) < Len(categories.v)
                     THEN categories.v[position(c) + 1] ELSE default
                ELSE IF c.v \in DOMAIN categories.v
                     THEN categories.v[c.v] ELSE default
        IN  /\ Len(out) = Len(vals)
            /\ \A i \in DOMAIN vals : out[i] = expected(vals[i])
            /\ \A i, j \in DOMAIN vals : vals[i] = vals[j] => out[i] = out[j]

StrictlyIncreasing(b) == \A i \in 1..(Len(b) - 1) : b[i].v < b[i + 1].v

(***************************************************************************)
(* C10  Boundaries of bin.  For strictly increasing boundaries b and       *)
(* labels l, a value v with b[i] < v <= b[i+1] gets l[i]; a value in no    *)
(* interval, b[0] included, gets nan when the labels are floats and None  *)
(* when they are of another type; without labels, l[i] is the midpoint of *)
(* bin i.                                                                 *)
(***************************************************************************)
C10_BinBoundaries ==
    last.call = "bin" =>
        LET vals == last.args[1].v.data
            b == last.args[2].v
            l == IF last.kwargs.labels = None
                 THEN [i \in 1..(Len(b) - 1) |-> PFloat(Q(b[i].v + b[i + 1].v, 2))]
                 ELSE last.kwargs.labels.v
            floating == \A i \in DOMAIN l : l[i].k = "float"
            out == last.ret.v.data
        IN  StrictlyIncreasing(b) =>
               /\ Len(out) = Len(vals)
               /\ \A j \in DOMAIN vals :
                     LET hits == {i \in 1..(Len(b) - 1) :
                                     b[i].v < vals[j].v /\ vals[j].v <= b[i + 1].v}
                     IN  IF hits # {} THEN \A i \in hits : out[j] = l[i]
                         ELSE out[j] = IF floating THEN NaN ELSE None

\* bin([1, 0], [0, 1, 2]): 1, an interior boundary, is in (0, 1] and gets
\* its midpoint; 0, the first boundary, is in no bin.
C10_Witness ==
    /\ last.call = "bin"
    /\ last.args = <<ndarray("i", <<PInt(1), PInt(0)>>),
                     PList(<<PInt(0), PInt(1), PInt(2)>>)>>
    /\ last.kwargs.labels = None
    /\ last.ret = ndarray("f", <<PFloat(Q(1, 2)), NaN>>)

(***************************************************************************)
(* C11  Registration.  After register(name, function) the registry of      *)
(* custom transforms maps the function to the name, every entry of it     *)
(* maps a function to a name, the constructor accepts the function, and   *)
(* the entries there were before are as they were.                        *)
(***************************************************************************)
C11_Register ==
    [][(last'.call = "register" /\ custom_funcs' # custom_funcs) =>
          LET name == last'.args[1]
              function == last'.args[2]
          IN  /\ function \in DOMAIN custom_funcs'
              /\ custom_funcs'[function] = name
              /\ \A f \in DOMAIN custom_funcs' :
                    function_types(f) /\ custom_funcs'[f].k = "str"
              /\ \A f \in DOMAIN custom_funcs :
                    f \in DOMAIN custom_funcs' /\ custom_funcs'[f] = custom_funcs[f]
      ]_vars

(***************************************************************************)
(* C12  clip.  e.clip(min, max) with both bounds None raises the           *)
(* ValueError and makes no expression; with a bound given it returns a    *)
(* new expression, e's operations followed by one clip operation holding  *)
(* both bounds, None for the one left out.  e is as it was.               *)
(***************************************************************************)
C12_Clip ==
    [][(last'.call = "clip" /\ last' # last) =>
          LET e == last'.obj.v
              min == last'.args[1]
              max == last'.args[2]
              old == lists[exprs[e].ops]
          IN  /\ exprs'[e] = exprs[e]
              /\ lists'[exprs'[e].ops] = old
              /\ IF min = None /\ max = None
                 THEN /\ last'.exc = "ValueError"
                      /\ last'.ret = None
                      /\ exprs' = exprs
                 ELSE /\ last'.exc = ""
                      /\ last'.ret = Ref(Len(exprs) + 1)
                      /\ Len(exprs') = Len(exprs) + 1
                      /\ exprs'[Len(exprs')].dimension = exprs[e].dimension
                      /\ lists'[exprs'[Len(exprs')].ops] =
                            Append(old, Op("clip", <<>>,
                                           [a_min |-> min, a_max |-> max], FALSE))
      ]_vars

\* e.clip(max=2) returned a dim, and clip() on that dim raised.
C12_Witness ==
    /\ last.call = "clip"
    /\ last.exc = "ValueError"
    /\ last.obj = Ref(2)
    /\ Len(exprs) = 2
    /\ OpsOf(2) = <<Op("clip", <<>>, [a_min |-> None, a_max |-> PInt(2)], FALSE)>>

C14_Ufunc ==
    [][(last'.call = "ufunc" /\ last' # last) =>
          LET e == last'.obj.v
              inputs == SubSeq(last'.args, 3, Len(last'.args))
              others == SubSeq(inputs, 2, Len(inputs))
              kwargs == last'.kwargs
              new == Len(exprs')
          IN  /\ last'.exc = ""
              /\ new = Len(exprs) + 1
              /\ exprs'[new].dimension = exprs[e].dimension
              /\ lists'[exprs'[new].ops] =
                    Append(lists[exprs[e].ops],
                           [fn |-> last'.args[1],
                            args |-> others,
                            kwargs |-> [n \in {m \in DOMAIN kwargs : kwargs[m] # None}
                                           |-> kwargs[n]],
                            reverse |-> FALSE])
      ]_vars

\* No source has a dimension of this name.
Unresolvable(d) == \A ds \in Sources : ~Contains(ds, d)

(***************************************************************************)
(* C15  Deferred evaluation.  Building and composing dims never fails for  *)
(* want of a dimension: a constructor, pipe, ufunc or clip call returns a *)
(* dim whatever its dimension is (clip without bounds raises its          *)
(* ValueError), and the failure of a dimension no source has comes with   *)
(* apply, and only with apply; applies answers FALSE for it.              *)
(***************************************************************************)
C15_Deferred ==
    [][/\ (last' # last /\ last'.call \in {"dim", "pipe", "ufunc", "clip"}) =>
             \/ /\ last'.exc = ""
                /\ Len(exprs') = Len(exprs) + 1
             \/ /\ last'.call = "clip"
                /\ last'.args = <<None, None>>
                /\ last'.exc = "ValueError"
       /\ last'.exc = "DataError" => last'.call = "apply"
       /\ (last'.call \in {"apply", "applies"}
           /\ Unresolvable(exprs'[last'.obj.v].dimension)) =>
             IF last'.call = "apply"
             THEN last'.exc = "DataError"
             ELSE last'.exc = "" /\ last'.ret = PBool(FALSE)
      ]_vars

\* A dim on 'z', which no source has, was built and composed, and apply
\* raised.
C15_Witness ==
    /\ last.call = "apply"
    /\ last.exc = "DataError"
    /\ exprs[last.obj.v].dimension = "z"
    /\ Len(OpsOf(last.obj.v)) = 2

\* The dim a repr() call rendered, and its last operation.
Rendered == Deref(last.obj.v)

LastOp == Rendered.ops[Len(Rendered.ops)]

IsRepr == last.call = "repr" /\ Rendered.ops # <<>>

(***************************************************************************)
(* C16  Rendering of a binary operation.  The text of a dim whose last     *)
(* operation is a binary operator is the text of the dim before it (in     *)
(* dim(...) at the first operation, bare or in parentheses later), the     *)
(* symbol and the rendered operand: text, symbol, operand when reverse is  *)
(* false and operand, symbol, text when it is true.  dim('x') + 1 renders  *)
(* as dim('x')+1, which contains 'x' and +.                                *)
(***************************************************************************)
C16_BinaryRendering ==
    (IsRepr /\ LastOp.fn \in DOMAIN _binary_funcs) =>
        LET acc == repr(Prefix(Rendered))
            symbol == _binary_funcs[LastOp.fn].v
            operand == pyrepr(LastOp.args[1])
            wrapped == IF Len(Rendered.ops) = 1 THEN {"dim(" \o acc \o ")"}
                       ELSE {acc, "(" \o acc \o ")"}
        IN  /\ \E w \in wrapped :
                   last.ret.v = IF LastOp.reverse THEN operand \o symbol \o w
                                ELSE w \o symbol \o operand
            /\ (Rendered.ops = <<Op("add", <<PInt(1)>>, EmptyDict, FALSE)>>
                    => /\ last.ret.v = "dim('x')+1"
                       /\ contains(last.ret.v, "'x'")
                       /\ contains(last.ret.v, "+"))

\* repr(1 - (dim('x') + 1)) was called.
C16_Witness ==
    /\ IsRepr
    /\ Rendered.ops = <<Op("add", <<PInt(1)>>, EmptyDict, FALSE),
                        Op("sub", <<PInt(1)>>, EmptyDict, TRUE)>>
    /\ last.ret.v = "1-(dim('x')+1)"

\* The accumulated text as an operation after the first may include it.
Wrapped(e) ==
    LET acc == repr(Prefix(e))
    IN  IF Len(e.ops) = 1 THEN {"dim(" \o acc \o ")"} ELSE {acc, "(" \o acc \o ")"}

\* The positional arguments and the keywords of an operation as items.
Items(o) ==
    LET names == sorted(DOMAIN o.kwargs)
    IN  [i \in DOMAIN o.args |-> pyrepr(o.args[i])]
        \o [i \in DOMAIN names |-> names[i] \o "=" \o pystr(o.kwargs[names[i]])]

(***************************************************************************)
(* C17  Rendering of a reduction or custom transform named n.  The text is *)
(* the accumulated text, then .n( , then the positional arguments and the  *)
(* keywords name=value in the order of their names, joined by ", " with no *)
(* leading or doubled separator, then ) ; without arguments it is .n() .   *)
(***************************************************************************)
C17_MethodSuffix ==
    (/\ IsRepr
     /\ LastOp.fn \notin DOMAIN _builtin_funcs
     /\ LastOp.fn \in DOMAIN _numpy_funcs \cup DOMAIN custom_funcs) =>
        LET n == IF LastOp.fn \in DOMAIN _numpy_funcs THEN _numpy_funcs[LastOp.fn].v
                 ELSE custom_funcs[LastOp.fn].v
        IN  /\ \E w \in Wrapped(Rendered) :
                   last.ret.v = w \o "." \o n \o "(" \o join(Items(LastOp), ", ") \o ")"
            /\ ~contains(last.ret.v, "(, ")
            /\ ~contains(last.ret.v, ", , ")

\* The number of places of text s where the character c stands.
Count(s, c) == Cardinality({i \in 1..Len(s) : SubSeq(s, i, i) = c})

Balanced(s) == Count(s, "(") = Count(s, ")")

(***************************************************************************)
(* C18  Rendering of a builtin function (abs, round).  The text is the     *)
(* display name, an opening parenthesis, the accumulated text and the      *)
(* arguments, and the closing parenthesis, so its parentheses balance:     *)
(* abs(dim('x')) renders as abs(dim('x')).                                 *)
(***************************************************************************)
C18_BuiltinPrefixCall ==
    (IsRepr /\ LastOp.fn \in DOMAIN _builtin_funcs) =>
        /\ \E w \in Wrapped(Rendered) :
               last.ret.v = _builtin_funcs[LastOp.fn].v \o "("
                                \o join(<<w>> \o Items(LastOp), ", ") \o ")"
        /\ Balanced(last.ret.v)
        /\ (Rendered.ops = <<Op("abs", <<>>, EmptyDict, FALSE)>>
                => last.ret.v = "abs(dim('x'))")

\* The operation is a binary or a unary operator.
IsOperator(o) == o.fn \in DOMAIN _binary_funcs \cup DOMAIN _unary_funcs

(***************************************************************************)
(* C19  Grouping of the rendering.  The first operation puts the anchor in *)
(* dim(...), once.  At every later operation the accumulated text stands   *)
(* in parentheses when the operation before it is a binary or a unary      *)
(* operator, so that the text read with the usual precedence is the order  *)
(* apply evaluates: (1 - dim('x')) * 2 does not render as 1-dim('x')*2.    *)
(***************************************************************************)
C19_Grouping ==
    IsRepr =>
        LET n == Len(Rendered.ops)
            acc == repr(Prefix(Rendered))
        IN  /\ n = 1 => contains(last.ret.v, "dim(" \o acc \o ")")
            /\ (n > 1 /\ IsOperator(Rendered.ops[n - 1]))
                   => contains(last.ret.v, "(" \o acc \o ")")
            /\ (Rendered.ops = <<Op("sub", <<PInt(1)>>, EmptyDict, TRUE),
                                 Op("mul", <<PInt(2)>>, EmptyDict, FALSE)>>
                    => last.ret.v # "1-dim('x')*2")

\* The request for the anchor's values inside the result of an apply whose
\* operations are forward operators.
RECURSIVE AnchorValues(_)
AnchorValues(r) == IF r.k = "values" THEN r.v ELSE AnchorValues(r.v.args[1])

\* The sources and anchors whose values stay unexpanded when expanded is
\* unset: a key dimension of a grid, and a dimension that is unique per
\* sub-geometry of a multi-geometry source.
Unexpanded == {<<"grid", "x">>, <<"paths", "w">>}

(***************************************************************************)
(* C20  Derivation of expanded.  When apply is called with expanded unset, *)
(* the values of the anchor are asked for with expanded false exactly when *)
(* the source is a grid and the anchor one of its key dimensions, or the   *)
(* source is multi-geometry and the anchor unique per sub-geometry, and    *)
(* with expanded true otherwise; a value the caller sets is passed on.     *)
(***************************************************************************)
C20_AutoExpanded ==
    (last.call = "apply" /\ last.exc = "") =>
        LET e == Deref(last.obj.v)
            dataset == last.args[1].v
            asked == AnchorValues(last.ret).expanded
        IN  IF last.kwargs.expanded = None
            THEN asked = PBool(<<dataset, e.dimension>> \notin Unexpanded)
            ELSE asked = last.kwargs.expanded

\* dim('y') * 2 was applied to the grid with expanded unset: y is a value
\* dimension of the grid and its values are asked for expanded.
C20_Witness ==
    /\ last.call = "apply" /\ last.exc = ""
    /\ last.args[1].v = "grid"
    /\ last.kwargs.expanded = None
    /\ Deref(last.obj.v).dimension = "y"
    /\ Deref(last.obj.v).ops # <<>>
    /\ AnchorValues(last.ret).expanded = PBool(TRUE)

\* The source and the dimension an apply that succeeded asked values for.
Asked == <<AnchorValues(last.ret).dataset, AnchorValues(last.ret).dimension>>

\* apply(dataset, all_values=all_values) of a dim with the anchor was called.
Applied(dataset, anchor, all_values) ==
    /\ last.call = "apply"
    /\ last.args[1].v = dataset
    /\ Deref(last.obj.v).dimension = anchor
    /\ last.kwargs.all_values = PBool(all_values)

(***************************************************************************)
(* C21  Graph redirection.  apply on a graph asks the nodes for the values *)
(* exactly when the dimension it resolved is one of the nodes and not of   *)
(* the graph, and the graph otherwise; under all_values a key dimension    *)
(* of the graph is widened to the third key dimension of the nodes.  On a  *)
(* source that is no graph the source and the dimension stay as they are.  *)
(***************************************************************************)
C21_GraphRedirect ==
    last.call = "apply" =>
        LET anchor == Deref(last.obj.v).dimension
            dataset == last.args[1].v
            widened == dataset = "graph" /\ anchor \in {"x", "x2"}
                       /\ last.kwargs.all_values.v
            resolved == IF widened THEN "y" ELSE anchor
            ofNodes == resolved \in {"nx", "ny", "y", "label"}
            ofGraph == resolved \in {"x", "x2", "w"}
        IN  /\ dataset = "graph" /\ (ofNodes \/ ofGraph) =>
                /\ last.exc = ""
                /\ Asked[2] = resolved
                /\ Asked[1] = "nodes" <=> (ofNodes /\ ~ofGraph)
                /\ Asked[1] = "graph" <=> ofGraph
            /\ dataset = "graph" /\ ~(ofNodes \/ ofGraph) => last.exc = "DataError"
            /\ dataset # "graph" /\ last.exc = "" => Asked = <<dataset, anchor>>
            /\ Applied("graph", "x", TRUE) => Asked = <<"nodes", "y">>
            /\ Applied("graph", "x", FALSE) => Asked = <<"graph", "x">>
            /\ Applied("graph", "label", FALSE) => Asked = <<"nodes", "label">>

\* (dim('x') * 2).apply(graph, all_values=True) took the values of the
\* third key dimension of the nodes.
C21_Witness ==
    /\ Applied("graph", "x", TRUE)
    /\ Deref(last.obj.v).ops # <<>>
    /\ last.exc = ""
    /\ Asked = <<"nodes", "y">>

\* The data the wrapped function gives for the bare data of a container.
Underlying(s) ==
    numpy_fn(last.obj.v, ndarray(s.v.dtype, s.v.data), Tail(last.args),
             last.kwargs).v.data

(***************************************************************************)
(* C22  Containers in the wrapped element-wise functions.  For a Series    *)
(* the result is a Series with the index of the input, in its order, and   *)
(* the function's data; for a chunked container the function is called     *)
(* once on each partition, in their order, through the container's own     *)
(* mapping and never on the container, each partition of Series keeping    *)
(* its index; for an array the result is the function's result.            *)
(***************************************************************************)
C22_ContainerHandling ==
    last.call = "_maybe_map" =>
        LET input == last.args[1]
            out == last.ret.ret
            calls == last.ret.calls
            fn(s) == numpy_fn(last.obj.v, s, Tail(last.args), last.kwargs)
        IN  CASE input.k = "Series" ->
                     /\ out.k = "Series"
                     /\ out.index = input.index
                     /\ out.v.data = Underlying(input)
                     /\ calls = <<input>>
              [] input.k = "dask.Series" ->
                     /\ out.k = "dask.Series"
                     /\ DOMAIN out.partitions = DOMAIN input.partitions
                     /\ \A i \in DOMAIN input.partitions :
                            /\ out.partitions[i].k = "Series"
                            /\ out.partitions[i].index = input.partitions[i].index
                            /\ out.partitions[i].v.data = Underlying(input.partitions[i])
                     /\ calls = input.partitions
                     /\ input \notin Range(calls)
              [] input.k = "dask.Array" ->
                     /\ out.k = "dask.Array"
                     /\ DOMAIN out.partitions = DOMAIN input.partitions
                     /\ \A i \in DOMAIN input.partitions :
                            out.partitions[i] = fn(input.partitions[i])
                     /\ calls = input.partitions
                     /\ input \notin Range(calls)
              [] OTHER ->
                     /\ out = fn(input)
                     /\ calls = <<input>>

\* isin was called on a dask Series of two partitions, the second with its
\* labels in reverse, and gave a dask Series.
C22_Witness ==
    /\ last.call = "_maybe_map"
    /\ last.obj = Fn("isin")
    /\ last.args[1].k = "dask.Series"
    /\ Len(last.args[1].partitions) = 2
    /\ last.args[1].partitions[2].index = <<"b", "a">>
    /\ last.ret.ret.k = "dask.Series"
    /\ last.ret.ret.partitions[2].index = <<"b", "a">>

\* The length of a column of the lines; a column nothing was appended to
\* is empty.
ColumnLen(lines, c) == IF c \in DOMAIN lines THEN Len(lines[c]) ELSE 0

(***************************************************************************)
(* C23  Alignment of records and geometries.  When every record has both   *)
(* coordinate dimensions, to_spatialpandas raises nothing, and after each  *)
(* round of its loop the geometries and the values of every column are as  *)
(* many as the records gone through, one each per record, also for a       *)
(* record that nan splits into sub-paths and for a record of one point;    *)
(* the frame returned has one row per record.                              *)
(***************************************************************************)
C23_Alignment ==
    (/\ last.call = "to_spatialpandas"
     /\ \A i \in DOMAIN last.args[1].v : {"x", "y"} \subseteq DOMAIN last.args[1].v[i]) =>
        /\ last.exc = ""
        /\ last.ret.k = "frame" =>
               \A c \in {"geometry", "v"} :
                   ColumnLen(last.ret.v.lines, c) = last.ret.v.n
        /\ last.ret.k = "GeoDataFrame" =>
               \A c \in DOMAIN last.ret.v :
                   Len(last.ret.v[c]) = Len(last.args[1].v)

====
